---------------------------- MODULE Spec2Model ----------------------------
(***************************************************************************)
(* JobTrawler: the relevance scoring engine (src/job_matcher.py).          *)
(*                                                                         *)
(* A JobMatcher is constructed from the CV's skills and keywords and is    *)
(* then asked to score job postings, one match_job call at a time.         *)
(*                                                                         *)
(* Strings are sequences of one-character strings, so that substring      *)
(* tests, whitespace splitting, the regular expressions and difflib's      *)
(* similarity ratio are computed character by character as Python does.    *)
(* Scores are fixed-point thousandths (1000 stands for 1.0): every float   *)
(* the matcher produces is a multiple of 0.001.                            *)
(***************************************************************************)
EXTENDS Integers, Sequences, FiniteSets, TLC

(***************************************************************************)
(* Python str primitives                                                   *)
(***************************************************************************)
Min(a, b) == IF a <= b THEN a ELSE b
Max(a, b) == IF a >= b THEN a ELSE b

UpperToLower ==
    [c \in {"A","B","C","D","E","F","G","H","I","J","K","L","M",
            "N","O","P","Q","R","S","T","U","V","W","X","Y","Z"} |->
       CASE c = "A" -> "a" [] c = "B" -> "b" [] c = "C" -> "c" [] c = "D" -> "d"
         [] c = "E" -> "e" [] c = "F" -> "f" [] c = "G" -> "g" [] c = "H" -> "h"
         [] c = "I" -> "i" [] c = "J" -> "j" [] c = "K" -> "k" [] c = "L" -> "l"
         [] c = "M" -> "m" [] c = "N" -> "n" [] c = "O" -> "o" [] c = "P" -> "p"
         [] c = "Q" -> "q" [] c = "R" -> "r" [] c = "S" -> "s" [] c = "T" -> "t"
         [] c = "U" -> "u" [] c = "V" -> "v" [] c = "W" -> "w" [] c = "X" -> "x"
         [] c = "Y" -> "y" [] c = "Z" -> "z"]

\* str.lower()
Lower(s) == [i \in 1..Len(s) |->
               IF s[i] \in DOMAIN UpperToLower THEN UpperToLower[s[i]] ELSE s[i]]

Digits == <<"0","1","2","3","4","5","6","7","8","9">>
IsDigit(c) == \E d \in 1..10 : Digits[d] = c
DigitValue(c) == (CHOOSE d \in 1..10 : Digits[d] = c) - 1
IsSpace(c) == c = " "
LowerLetters == {"a","b","c","d","e","f","g","h","i","j","k","l","m",
                 "n","o","p","q","r","s","t","u","v","w","x","y","z"}
\* a letter with no lower-case form of its own: str.lower() leaves it as it is
OtherLetters == {"ß"}
\* the regular expression class \w
IsWordChar(c) ==
    \/ c \in LowerLetters \/ c \in DOMAIN UpperToLower \/ c \in OtherLetters
    \/ IsDigit(c) \/ c = "_"

\* s[i:i+len(p)] == p   (i is 1-based)
MatchAt(p, s, i) ==
    /\ i >= 1
    /\ i + Len(p) - 1 <= Len(s)
    /\ \A k \in 1..Len(p) : s[i + k - 1] = p[k]

\* p in s
Contains(p, s) == \E i \in 1..(Len(s) - Len(p) + 1) : MatchAt(p, s, i)

\* ' '.join(parts)
RECURSIVE Join(_)
Join(parts) ==
    IF Len(parts) = 0 THEN << >>
    ELSE IF Len(parts) = 1 THEN parts[1]
    ELSE parts[1] \o <<" ">> \o Join(Tail(parts))

\* s.split(): the maximal runs of non-whitespace characters, in order
RECURSIVE Split(_)
Split(s) ==
    IF Len(s) = 0 THEN << >>
    ELSE IF IsSpace(s[1]) THEN Split(Tail(s))
    ELSE LET stops == {i \in 1..Len(s) : IsSpace(s[i])}
             end   == IF stops = {} THEN Len(s) + 1
                      ELSE CHOOSE i \in stops : \A j \in stops : i <= j
         IN  <<SubSeq(s, 1, end - 1)>> \o Split(SubSeq(s, end, Len(s)))

(***************************************************************************)
(* difflib.SequenceMatcher(None, a, b).ratio() as CPython computes it for  *)
(* strings shorter than 200 characters (no junk, no "popular" elements):   *)
(* the longest common block, earliest in a and then earliest in b, then    *)
(* the same to the left and to the right of it.                            *)
(***************************************************************************)
\* the length of the common run of a[i..] and b[j..]
RECURSIVE CommonRun(_, _, _, _)
CommonRun(a, b, i, j) ==
    IF i <= Len(a) /\ j <= Len(b) /\ a[i] = b[j]
    THEN 1 + CommonRun(a, b, i + 1, j + 1)
    ELSE 0

\* SequenceMatcher.find_longest_match over the whole of a and b
LongestMatch(a, b) ==
    LET runs == {<<i, j>> \in (1..Len(a)) \X (1..Len(b)) : a[i] = b[j]}
    IN  IF runs = {} THEN [i |-> 1, j |-> 1, size |-> 0]
        ELSE LET best == CHOOSE k \in 1..Min(Len(a), Len(b)) :
                            /\ \E r \in runs : CommonRun(a, b, r[1], r[2]) = k
                            /\ \A r \in runs : CommonRun(a, b, r[1], r[2]) <= k
                 at   == {r \in runs : CommonRun(a, b, r[1], r[2]) = best}
                 i0   == CHOOSE i \in {r[1] : r \in at} : \A r \in at : i <= r[1]
                 j0   == CHOOSE j \in {r[2] : r \in {q \in at : q[1] = i0}} :
                            \A r \in {q \in at : q[1] = i0} : j <= r[2]
             IN  [i |-> i0, j |-> j0, size |-> best]

\* the sum of the sizes of SequenceMatcher.get_matching_blocks()
RECURSIVE MatchingTotal(_, _)
MatchingTotal(a, b) ==
    IF Len(a) = 0 \/ Len(b) = 0 THEN 0
    ELSE LET m == LongestMatch(a, b)
         IN  IF m.size = 0 THEN 0
             ELSE m.size
                  + MatchingTotal(SubSeq(a, 1, m.i - 1), SubSeq(b, 1, m.j - 1))
                  + MatchingTotal(SubSeq(a, m.i + m.size, Len(a)),
                                  SubSeq(b, m.j + m.size, Len(b)))

\* SequenceMatcher(None, a, b).ratio() >= threshold, threshold in thousandths:
\* ratio is 2.0 * matches / (len(a) + len(b)), and 1.0 for two empty strings
RatioAtLeast(a, b, threshold) ==
    IF Len(a) + Len(b) = 0 THEN 1000 >= threshold
    ELSE 2 * MatchingTotal(a, b) * 1000 >= threshold * (Len(a) + Len(b))

(***************************************************************************)
(* re.search(r'\b' + re.escape(skill) + r'\b', job_text, re.IGNORECASE)    *)
(***************************************************************************)
\* \b before position i of s (i in 1..Len(s)+1)
WordBoundary(s, i) ==
    LET before == i >= 2 /\ i - 1 <= Len(s) /\ IsWordChar(s[i - 1])
        after  == i >= 1 /\ i <= Len(s) /\ IsWordChar(s[i])
    IN  before # after

WordSearch(skill, job_text) ==
    \E i \in 1..(Len(job_text) - Len(skill) + 1) :
        /\ MatchAt(Lower(skill), Lower(job_text), i)
        /\ WordBoundary(job_text, i)
        /\ WordBoundary(job_text, i + Len(skill))

(***************************************************************************)
(* JobMatcher._fuzzy_match_skill                                           *)
(***************************************************************************)
\* the dict of skill variations, in the order the literal lists them
variations == <<
    <<<<"j","s">>, <<"j","a","v","a","s","c","r","i","p","t">>>>,
    <<<<"k","8","s">>, <<"k","u","b","e","r","n","e","t","e","s">>>>,
    <<<<"k","u","b","e","r","n","e","t","e","s">>, <<"k","8","s">>>>,
    <<<<"m","l">>, <<"m","a","c","h","i","n","e"," ","l","e","a","r","n","i","n","g">>>>,
    <<<<"a","i">>, <<"a","r","t","i","f","i","c","i","a","l"," ","i","n","t","e","l","l","i","g","e","n","c","e">>>>,
    <<<<"a","d">>, <<"a","c","t","i","v","e"," ","d","i","r","e","c","t","o","r","y">>>>,
    <<<<"a","z","u","r","e"," ","a","d">>, <<"a","z","u","r","e"," ","a","c","t","i","v","e"," ","d","i","r","e","c","t","o","r","y">>>>,
    <<<<"o","3","6","5">>, <<"o","f","f","i","c","e"," ","3","6","5">>>>,
    <<<<"o","f","f","i","c","e"," ","3","6","5">>, <<"o","3","6","5">>>>,
    <<<<"m","3","6","5">>, <<"m","i","c","r","o","s","o","f","t"," ","3","6","5">>>>,
    <<<<"m","i","c","r","o","s","o","f","t"," ","3","6","5">>, <<"m","3","6","5">>>>,
    <<<<"g","c","p">>, <<"g","o","o","g","l","e"," ","c","l","o","u","d"," ","p","l","a","t","f","o","r","m">>>>,
    <<<<"g","o","o","g","l","e"," ","c","l","o","u","d">>, <<"g","c","p">>>>,
    <<<<"a","w","s">>, <<"a","m","a","z","o","n"," ","w","e","b"," ","s","e","r","v","i","c","e","s">>>>,
    <<<<"n","o","d","e">>, <<"n","o","d","e",".","j","s">>>>,
    <<<<"n","o","d","e","j","s">>, <<"n","o","d","e",".","j","s">>>>,
    <<<<"r","e","a","c","t">>, <<"r","e","a","c","t",".","j","s">>>>,
    <<<<"v","u","e">>, <<"v","u","e",".","j","s">>>>,
    <<<<"a","n","g","u","l","a","r">>, <<"a","n","g","u","l","a","r",".","j","s">>>>,
    <<<<"p","o","s","t","g","r","e","s">>, <<"p","o","s","t","g","r","e","s","q","l">>>>,
    <<<<"m","y","s","q","l">>, <<"m","a","r","i","a","d","b">>>>,
    <<<<"s","q","l"," ","s","e","r","v","e","r">>, <<"m","s","s","q","l">>>>,
    <<<<"m","s","s","q","l">>, <<"s","q","l"," ","s","e","r","v","e","r">>>>,
    <<<<"w","i","n","d","o","w","s">>, <<"w","i","n","d","o","w","s"," ","s","e","r","v","e","r">>>>,
    <<<<"l","i","n","u","x">>, <<"u","n","i","x">>>>,
    <<<<"u","n","i","x">>, <<"l","i","n","u","x">>>>,
    <<<<"c","i","/","c","d">>, <<"c","o","n","t","i","n","u","o","u","s"," ","i","n","t","e","g","r","a","t","i","o","n">>>>,
    <<<<"d","e","v","o","p","s">>, <<"d","e","v"," ","o","p","s">>>>,
    <<<<"i","t","i","l">>, <<"i","t"," ","s","e","r","v","i","c","e"," ","m","a","n","a","g","e","m","e","n","t">>>>,
    <<<<"s","c","c","m">>, <<"s","y","s","t","e","m"," ","c","e","n","t","e","r"," ","c","o","n","f","i","g","u","r","a","t","i","o","n"," ","m","a","n","a","g","e","r">>>>,
    <<<<"e","x","c","h","a","n","g","e">>, <<"m","i","c","r","o","s","o","f","t"," ","e","x","c","h","a","n","g","e">>>>,
    <<<<"d","n","s">>, <<"d","o","m","a","i","n"," ","n","a","m","e"," ","s","y","s","t","e","m">>>>,
    <<<<"d","h","c","p">>, <<"d","y","n","a","m","i","c"," ","h","o","s","t"," ","c","o","n","f","i","g","u","r","a","t","i","o","n"," ","p","r","o","t","o","c","o","l">>>>,
    <<<<"v","p","n">>, <<"v","i","r","t","u","a","l"," ","p","r","i","v","a","t","e"," ","n","e","t","w","o","r","k">>>>,
    <<<<"m","f","a">>, <<"m","u","l","t","i","-","f","a","c","t","o","r"," ","a","u","t","h","e","n","t","i","c","a","t","i","o","n">>>>,
    <<<<"m","u","l","t","i","-","f","a","c","t","o","r"," ","a","u","t","h","e","n","t","i","c","a","t","i","o","n">>, <<"m","f","a">>>> >>

\* the default of the threshold parameter, in thousandths
DefaultThreshold == 750

\* step 1: skill in variations and variations[skill] in job_text
DirectVariation(skill, job_text) ==
    \E e \in 1..Len(variations) :
        variations[e][1] = skill /\ Contains(variations[e][2], job_text)

\* a faulty step 2: the skill is compared with the key
ReverseVariationOfKey(skill, job_text) ==
    \E e \in 1..Len(variations) :
        variations[e][1] = skill /\ Contains(variations[e][1], job_text)

\* step 2: some (key, value) has skill == value and key in job_text
ReverseVariation(skill, job_text) ==
    \E e \in 1..Len(variations) :
        variations[e][2] = skill /\ Contains(variations[e][1], job_text)

\* step 3: a skill of several words, all of them in job_text
AllWords(skill, job_text) ==
    LET skill_words == Split(skill)
    IN  /\ Len(skill_words) > 1
        /\ \A w \in 1..Len(skill_words) : Contains(skill_words[w], job_text)

\* step 6: some word of job_text is similar enough to the skill
SimilarWord(skill, job_text, threshold) ==
    LET words == Split(job_text)
    IN  \E w \in 1..Len(words) : RatioAtLeast(skill, words[w], threshold)

\* a faulty step 7: the lengths are not looked at
PartOfWordAnyLength(skill, job_text) ==
    LET words == Split(job_text)
    IN  \E w \in 1..Len(words) :
            Contains(skill, words[w]) \/ Contains(words[w], skill)

\* step 7: skill inside a word or a word inside the skill, both of 3+ characters
PartOfWord(skill, job_text) ==
    LET words == Split(job_text)
    IN  \E w \in 1..Len(words) :
            /\ Contains(skill, words[w]) \/ Contains(words[w], skill)
            /\ Len(skill) >= 3
            /\ Len(words[w]) >= 3

fuzzy_match_skill(skill, job_text) ==
    \/ DirectVariation(skill, job_text)
    \/ ReverseVariation(skill, job_text)
    \/ AllWords(skill, job_text)
    \/ WordSearch(skill, job_text)
    \/ Contains(skill, job_text)
    \/ SimilarWord(skill, job_text, DefaultThreshold)
    \/ PartOfWord(skill, job_text)

(***************************************************************************)
(* JobMatcher._extract_job_text                                            *)
(***************************************************************************)
\* job.get(key, '')
Get(job, key) == IF key \in DOMAIN job THEN job[key] ELSE << >>

\* a faulty extraction: a posting that lacks one of the fields has no text
extract_job_text_strict(job) ==
    IF {"title", "company", "snippet", "full_description"} \subseteq DOMAIN job
    THEN Lower(Join(<<job["title"], job["company"],
                      job["snippet"], job["full_description"]>>))
    ELSE << >>

\* a faulty extraction: the title is left out of the text
extract_job_text_no_title(job) ==
    Lower(Join(<<Get(job, "company"),
                 Get(job, "snippet"), Get(job, "full_description")>>))

extract_job_text(job) ==
    Lower(Join(<<Get(job, "title"), Get(job, "company"),
                 Get(job, "snippet"), Get(job, "full_description")>>))

(***************************************************************************)
(* The inputs: the CVs a JobMatcher is built from, the postings it is      *)
(* given, and the candidate's years                                        *)
(***************************************************************************)
MaxSkills == 9
MaxKeywords == 8
MaxYears == 3

\* the skills a CV parser may hand over, as written in the CV
CvSkillList == <<
    <<"s","q","l">>, <<"e","x","c","e","l">>, <<"s","a","p">>, <<"s","e","o">>, <<"c","r","m">>, <<"e","r","p">>, <<"v","b","a">>, <<"p","r","o","j","e","c","t"," ","m","a","n","a","g","e","m","e","n","t">>,
    <<"n","e","t","w","o","r","k","i","n","g">>, <<"s","a","l","e","s">>, <<"A","W","S">>, <<"d","o","c","k","e","r">>, <<"k","u","b","e","r","n","e","t","e","s">>, <<"l","i","n","u","x">>, <<"g","i","t">>,
    <<"j","a","v","a">>, <<"P","y","t","h","o","n">> >>

CvKeywordList == <<
    <<"p","y","t","h","o","n">>, <<"C","l","o","u","d">>, <<"e","n","g","i","n","e","e","r","i","n","g">>, <<"s","e","n","i","o","r">>, <<"d","e","v","e","l","o","p","e","r">>,
    <<"i","n","f","r","a","s","t","r","u","c","t","u","r","e">>, <<"a","u","t","o","m","a","t","i","o","n">>, <<"s","e","c","u","r","i","t","y">>, <<"r","e","m","o","t","e">>, <<"s","u","p","p","o","r","t">> >>

Range(seq) == {seq[i] : i \in 1..Len(seq)}
Reverse(seq) == [i \in 1..Len(seq) |-> seq[Len(seq) + 1 - i]]
Take(seq, k) == SubSeq(seq, 1, Min(k, Len(seq)))

\* the skill lists of the CVs: the first k skills of the list, from either end
SkillLists ==
    {Take(CvSkillList, k) : k \in 0..MaxSkills}
    \cup {Take(Reverse(CvSkillList), k) : k \in 0..MaxSkills}

\* the elements of seq at the positions in I, in order
Pick(seq, I) ==
    [k \in 1..Cardinality(I) |->
        seq[CHOOSE i \in I : Cardinality({j \in I : j <= i}) = k]]

\* seq without the repetitions of its elements
Distinct(seq) ==
    Pick(seq, {i \in 1..Len(seq) : \A j \in 1..(i - 1) : seq[j] # seq[i]})

MaxPool == 8

\* a pool of skills, half of them from either end of the list, and the skill
\* lists of the CVs that hold any of them
SkillPool ==
    Take(CvSkillList, MaxPool \div 2)
    \o Take(Reverse(CvSkillList), MaxPool - MaxPool \div 2)

PoolLists == {Pick(SkillPool, I) : I \in SUBSET (1..Len(SkillPool))}

KeywordSets == {Range(Take(CvKeywordList, k)) : k \in 0..MaxKeywords}

Years == 0..MaxYears

Jobs == {
    [ title |-> <<"P","y","t","h","o","n"," ","D","e","v","e","l","o","p","e","r">>, company |-> << >>,
      snippet |-> << >>, full_description |-> << >> ],
    [ title |-> << >>, company |-> <<"A","c","m","e">>,
      snippet |-> << >>, full_description |-> << >> ],
    [ title |-> <<"S","e","n","i","o","r"," ","C","l","o","u","d"," ","E","n","g","i","n","e","e","r">>, company |-> <<"A","c","m","e">>,
      snippet |-> <<"5"," ","y","e","a","r","s"," ","o","f"," ","e","x","p","e","r","i","e","n","c","e"," ","r","e","q","u","i","r","e","d">>,
      full_description |-> <<"S","Q","L"," ","E","x","c","e","l"," ","S","A","P"," ","S","E","O"," ","C","R","M"," ","E","R","P"," ","V","B","A"," ","s","a","l","e","s"," ","D","o","c","k","e","r"," ","G","i","t"," ","P","y","t","h","o","n"," ","J","a","v","a",","," ","A","m","a","z","o","n"," ","W","e","b"," ","S","e","r","v","i","c","e","s",","," ","k","8","s",","," ","U","n","i","x",","," ","n","e","t","w","o","r","k","s"," ","a","n","d"," ","m","a","n","a","g","e","m","e","n","t"," ","o","f"," ","a"," ","p","r","o","j","e","c","t">> ],
    [ title |-> <<"P","y","t","h","o","n"," ","J","a","v","a"," ","S","Q","L"," ","E","x","c","e","l"," ","S","A","P"," ","D","e","v","e","l","o","p","e","r">>, company |-> <<"A","c","m","e">>,
      snippet |-> <<"m","i","n","i","m","u","m"," ","4"," ","y","e","a","r","s">>, full_description |-> << >> ],
    [ title |-> <<"S","e","n","i","o","r"," ","P","y","t","h","o","n"," ","D","e","v","e","l","o","p","e","r">>, company |-> <<"C","l","o","u","d"," ","I","n","f","r","a","s","t","r","u","c","t","u","r","e">>,
      snippet |-> <<"r","e","m","o","t","e"," ","e","n","g","i","n","e","e","r","i","n","g"," ","s","u","p","p","o","r","t">>,
      full_description |-> <<"a","u","t","o","m","a","t","i","o","n"," ","a","n","d"," ","s","e","c","u","r","i","t","y">> ],
    [ title |-> <<"G","i","t"," ","E","n","g","i","n","e","e","r">>, company |-> <<"3"," ","Y","r","s"," ","E","x","p"," ","L","t","d">>,
      snippet |-> << >>, full_description |-> <<"l","i","n","u","x">> ],
    [ title |-> <<"D","a","t","a"," ","A","n","a","l","y","s","t">>, company |-> <<"A","c","m","e">>,
      snippet |-> <<"s","q","l"," ","a","n","d"," ","e","x","c","e","l">>, full_description |-> <<"a","t"," ","l","e","a","s","t"," ","2"," ","y","e","a","r","s">> ],
    [ title |-> <<"E","n","g","i","n","e","e","r">>, company |-> << >>,
      snippet |-> <<"5"," ","y","e","a","r","s"," ","o","f"," ","e","x","p","e","r","i","e","n","c","e"," ","r","e","q","u","i","r","e","d">>, full_description |-> << >> ] }

\* the CVs and the postings that differ from one another in letter case, in
\* the company or in the fields that are present
PostingSkillLists == {
    << >>,
    << <<"P","y","t","h","o","n">>, <<"S","Q","L">>, <<"G","i","t">>, <<"E","x","c","e","l">>, <<"L","i","n","u","x">> >>,
    << <<"p","y","t","h","o","n">>, <<"s","q","l">>, <<"g","i","t">>, <<"e","x","c","e","l">>, <<"l","i","n","u","x">> >>,
    << <<"P","Y","T","H","O","N">>, <<"P","y","t","h","o","n">>, <<"s","q","l">>, <<"G","I","T">>, <<"e","x","c","e","l">>, <<"L","I","N","U","X">> >> }

PostingKeywordSets == {
    {},
    { <<"D","e","v","e","l","o","p","e","r">>, <<"G","r","o","ß","h","a","n","d","e","l">>, <<"S","e","n","i","o","r">>, <<"P","y","t","h","o","n">> },
    { <<"d","e","v","e","l","o","p","e","r">>, <<"G","R","O","S","S","H","A","N","D","E","L">>, <<"s","e","n","i","o","r">>, <<"p","y","t","h","o","n">> },
    { <<"D","E","V","E","L","O","P","E","R">>, <<"g","r","o","ß","h","a","n","d","e","l">>, <<"S","E","N","I","O","R">>, <<"P","Y","T","H","O","N">> } }

Postings == {
    [ title |-> <<"S","Q","L"," ","E","n","g","i","n","e","e","r">>, company |-> <<"3"," ","Y","r","s"," ","E","x","p"," ","L","t","d">>,
      snippet |-> << >>, full_description |-> <<"g","i","t">> ],
    [ title |-> <<"S","Q","L"," ","E","n","g","i","n","e","e","r">>, company |-> <<"A","c","m","e">>,
      snippet |-> << >>, full_description |-> <<"g","i","t">> ],
    [ title |-> <<"S","Q","L"," ","D","e","v","e","l","o","p","e","r">>, company |-> << >>,
      snippet |-> << >>, full_description |-> << >> ],
    [ title |-> <<"s","q","l"," ","d","e","v","e","l","o","p","e","r">>, company |-> << >>,
      snippet |-> << >>, full_description |-> << >> ],
    [ title |-> <<"S","e","n","i","o","r"," ","P","y","t","h","o","n"," ","S","Q","L"," ","G","i","t"," ","E","x","c","e","l"," ","L","i","n","u","x"," ","D","e","v","e","l","o","p","e","r">>, company |-> <<"A","c","m","e">>,
      snippet |-> <<"m","i","n","i","m","u","m"," ","2"," ","y","e","a","r","s">>, full_description |-> << >> ],
    [ title |-> <<"S","Q","L"," ","D","e","v","e","l","o","p","e","r">> ],
    [ title |-> <<"S","Q","L"," ","D","e","v","e","l","o","p","e","r">>, snippet |-> << >> ],
    [ title |-> << >>, company |-> <<"A","c","m","e">>,
      snippet |-> <<"p","y","t","h","o","n"," ","a","n","d"," ","s","q","l",","," ","3"," ","y","e","a","r","s"," ","e","x","p","e","r","i","e","n","c","e">>, full_description |-> << >> ],
    [ company |-> <<"A","c","m","e">>, snippet |-> <<"p","y","t","h","o","n"," ","a","n","d"," ","s","q","l",","," ","3"," ","y","e","a","r","s"," ","e","x","p","e","r","i","e","n","c","e">> ],
    [ title |-> <<"G","r","o","ß","h","a","n","d","e","l"," ","S","Q","L"," ","D","e","v","e","l","o","p","e","r">>, company |-> <<"A","c","m","e">>,
      snippet |-> <<"P","y","t","h","o","n">>, full_description |-> << >> ],
    [ title |-> <<"G","R","O","S","S","H","A","N","D","E","L"," ","S","Q","L"," ","D","E","V","E","L","O","P","E","R">>, company |-> <<"A","C","M","E">>,
      snippet |-> <<"P","Y","T","H","O","N">>, full_description |-> << >> ],
    [ title |-> <<"g","r","o","ß","h","a","n","d","e","l"," ","s","q","l"," ","d","e","v","e","l","o","p","e","r">>, company |-> <<"a","c","m","e">>,
      snippet |-> <<"p","y","t","h","o","n">>, full_description |-> << >> ],
    [ title |-> <<"U","n","i","x"," ","S","Q","L"," ","A","d","m","i","n","i","s","t","r","a","t","o","r">>, company |-> <<"A","c","m","e">>,
      snippet |-> <<"p","y","t","h","o","n">>, full_description |-> << >> ],
    [ title |-> << >>, company |-> << >>,
      snippet |-> << >>, full_description |-> << >> ],
    << >> }

(***************************************************************************)
(* The postings JobTrawler.process_jobs works on (src/job_trawler.py)      *)
(***************************************************************************)
\* job[key] = value
Put(job, key, value) ==
    [k \in DOMAIN job \cup {key} |-> IF k = key THEN value ELSE job[k]]

\* what the job boards return (crawl_job_boards)
CrawledJobs == {
    [ source |-> <<"i","n","d","e","e","d">>, title |-> <<"S","Q","L"," ","D","e","v","e","l","o","p","e","r">>, company |-> <<"A","c","m","e">>,
      snippet |-> <<"p","y","t","h","o","n">>, full_description |-> << >>,
      location |-> <<"L","o","n","d","o","n">>, url |-> << >> ],
    [ source |-> <<"i","n","d","e","e","d">>, title |-> <<"S","Q","L"," ","D","e","v","e","l","o","p","e","r">>, company |-> <<"A","c","m","e">>,
      snippet |-> <<"g","i","t"," ","a","n","d"," ","l","i","n","u","x">>, full_description |-> << >>,
      location |-> <<"L","e","e","d","s",","," ","U","K">>, url |-> << >> ],
    [ source |-> <<"r","e","e","d">>, title |-> <<"S","a","l","e","s"," ","A","s","s","i","s","t","a","n","t">>, company |-> <<"S","h","o","p">>,
      snippet |-> << >>, full_description |-> << >>,
      location |-> << >>, url |-> << >> ],
    [ source |-> <<"l","i","n","k","e","d","i","n">>, title |-> <<"P","y","t","h","o","n"," ","E","n","g","i","n","e","e","r">>, company |-> <<"G","l","o","b","e","x">>,
      snippet |-> <<"p","y","t","h","o","n">>, full_description |-> << >>,
      location |-> <<"D","e","l","h","i",","," ","I","n","d","i","a">>, url |-> <<"h","t","t","p","s",":","/","/","g","l","o","b","e","x","/","1">> ],
    [ source |-> <<"r","e","e","d">>, title |-> <<"S","e","n","i","o","r"," ","P","y","t","h","o","n"," ","S","Q","L"," ","G","i","t"," ","E","x","c","e","l"," ","L","i","n","u","x"," ","D","e","v","e","l","o","p","e","r">>,
      company |-> <<"A","c","m","e">>, snippet |-> <<"m","i","n","i","m","u","m"," ","2"," ","y","e","a","r","s">>, full_description |-> << >>,
      location |-> <<"B","e","r","l","i","n">>, url |-> <<"h","t","t","p","s",":","/","/","a","c","m","e","/","2">> ],
    [ source |-> <<"r","e","e","d">>, title |-> <<"P","y","t","h","o","n"," ","D","e","v","e","l","o","p","e","r">>, company |-> <<"I","n","i","t","e","c","h">>,
      snippet |-> <<"L","o","c","a","t","i","o","n",":"," ","A","u","s","t","i","n"," ","T","X","."," ","P","y","t","h","o","n"," ","a","n","d"," ","S","Q","L">>, full_description |-> << >>,
      location |-> << >>, url |-> << >> ] }

\* the descriptions the posting's page may hold
FetchedDescriptions == { <<"p","y","t","h","o","n",","," ","s","q","l"," ","a","n","d"," ","g","i","t"," ","o","n"," ","l","i","n","u","x",","," ","3"," ","y","e","a","r","s"," ","e","x","p","e","r","i","e","n","c","e">> }

\* get_job_details(job): the page's description is stored in the posting if
\* the request succeeds and the page has one
get_job_details(job) ==
    IF Get(job, "url") = << >> THEN {job}
    ELSE {job} \cup {Put(job, "full_description", desc) : desc \in FetchedDescriptions}

\* process_jobs, lines 2901-2910: the postings that may go on to match_job
Details(job, skip_details) ==
    IF ~skip_details /\ Get(job, "full_description") = << >> /\ Get(job, "url") # << >>
    THEN get_job_details(job)
    ELSE IF skip_details /\ Get(job, "full_description") = << >>
                         /\ Get(job, "snippet") # << >>
    THEN {Put(job, "full_description", job["snippet"])}
    ELSE {job}

\* the fields of a posting that match_job reads
PostingKeys == {"title", "company", "snippet", "full_description"}
Posting(job) == [key \in PostingKeys \cap DOMAIN job |-> job[key]]

TrawlerPostings ==
    {Posting(detailed) :
        detailed \in UNION {Details(job, skip_details) :
                                job \in CrawledJobs, skip_details \in BOOLEAN}}

\* every skill and every keyword of a CV, as the matcher holds it
AllSkills ==
    {Lower(skill) : skill \in Range(CvSkillList)}
    \cup UNION {{Lower(skill) : skill \in Range(skills)} : skills \in PostingSkillLists}

AllKeywords ==
    {Lower(kw) : kw \in Range(CvKeywordList)}
    \cup UNION {{Lower(kw) : kw \in keywords} : keywords \in PostingKeywordSets}

\* the text of each posting
JobTexts == {extract_job_text(job) : job \in Jobs \cup Postings \cup TrawlerPostings}

(***************************************************************************)
(* JobMatcher._calculate_skill_match                                       *)
(***************************************************************************)
high_value_skills == {
    <<"a","w","s">>, <<"a","z","u","r","e">>, <<"g","c","p">>, <<"g","o","o","g","l","e"," ","c","l","o","u","d">>, <<"d","o","c","k","e","r">>, <<"k","u","b","e","r","n","e","t","e","s">>, <<"k","8","s">>,
    <<"t","e","r","r","a","f","o","r","m">>, <<"a","n","s","i","b","l","e">>, <<"p","y","t","h","o","n">>, <<"j","a","v","a">>, <<"j","a","v","a","s","c","r","i","p","t">>, <<"t","y","p","e","s","c","r","i","p","t">>,
    <<"r","e","a","c","t">>, <<"n","o","d","e",".","j","s">>, <<"d","e","v","o","p","s">>, <<"c","i","/","c","d">>, <<"l","i","n","u","x">>, <<"w","i","n","d","o","w","s"," ","s","e","r","v","e","r">>,
    <<"a","c","t","i","v","e"," ","d","i","r","e","c","t","o","r","y">>, <<"a","z","u","r","e"," ","a","d">>, <<"p","o","s","t","g","r","e","s","q","l">>, <<"m","y","s","q","l">>, <<"m","o","n","g","o","d","b">>,
    <<"j","e","n","k","i","n","s">>, <<"g","i","t">>, <<"a","g","i","l","e">>, <<"s","c","r","u","m">>, <<"i","t","i","l">>, <<"s","e","r","v","i","c","e","n","o","w">>, <<"j","i","r","a">> }

\* a faulty test: the fuzzy matcher is not asked
SkillMatchesExact(skill, job_text) == Contains(skill, job_text)

\* the test of the loop over self.cv_skills: exact match, else fuzzy match
SkillMatches(skill, job_text) ==
    Contains(skill, job_text) \/ fuzzy_match_skill(skill, job_text)

\* SkillMatches reads the skill and the text and nothing else: its value
\* for each skill of a CV and each posting's text, computed once
SkillMatchResults ==
    [skill \in AllSkills, job_text \in JobTexts |-> SkillMatches(skill, job_text)]

\* the loop over self.cv_skills: the skills that match, in iteration order
RECURSIVE MatchedSkills(_, _)
MatchedSkills(skills, job_text) ==
    IF Len(skills) = 0 THEN << >>
    ELSE (IF SkillMatchResults[skills[1], job_text] THEN <<skills[1]>> ELSE << >>)
         \o MatchedSkills(Tail(skills), job_text)

\* a faulty staircase: the third matched skill lowers the score
SkillStepDip(base_matches) ==
    IF base_matches = 1 THEN 300
    ELSE IF base_matches = 2 THEN 500
    ELSE IF base_matches = 3 THEN 450
    ELSE IF base_matches >= 4 THEN 750 + Min(200, (base_matches - 4) * 50)
    ELSE 0

\* the staircase over the number of matched skills
SkillStep(base_matches) ==
    IF base_matches = 1 THEN 300
    ELSE IF base_matches = 2 THEN 500
    ELSE IF base_matches = 3 THEN 650
    ELSE IF base_matches >= 4 THEN 750 + Min(200, (base_matches - 4) * 50)
    ELSE 0

\* a faulty score: the high-value bonus is not capped at 0.15
SkillScoreUncappedBonus(matched_skills) ==
    LET base_matches       == Len(matched_skills)
        high_value_matches == Cardinality({i \in 1..Len(matched_skills) :
                                             matched_skills[i] \in high_value_skills})
    IN  IF Len(matched_skills) = 0 THEN 0
        ELSE Min(1000, (IF base_matches = 1 THEN 300
                        ELSE IF base_matches = 2 THEN 500
                        ELSE IF base_matches = 3 THEN 650
                        ELSE 750 + Min(200, (base_matches - 4) * 50))
                       + high_value_matches * 50)

\* lines 51-81: the score of the list of matched skills
SkillScore(matched_skills) ==
    LET base_matches       == Len(matched_skills)
        high_value_matches == Cardinality({i \in 1..Len(matched_skills) :
                                             matched_skills[i] \in high_value_skills})
        match_score        == SkillStep(base_matches)
    IN  IF Len(matched_skills) = 0 THEN 0
        ELSE IF high_value_matches > 0
        THEN Min(1000, match_score + Min(150, high_value_matches * 50))
        ELSE match_score

\* skills: self.cv_skills in the order the set iterates
calculate_skill_match(skills, job_text) ==
    LET matched_skills == MatchedSkills(skills, job_text)
    IN  IF Len(skills) = 0 THEN [score |-> 0, matched |-> << >>]
        ELSE IF Len(matched_skills) = 0 THEN [score |-> 0, matched |-> << >>]
        ELSE [score |-> SkillScore(matched_skills), matched |-> matched_skills]

(***************************************************************************)
(* JobMatcher._calculate_keyword_match                                     *)
(***************************************************************************)
\* a faulty test: a keyword that is no substring goes to the fuzzy matcher
KeywordMatchesFuzzy(kw, job_text) ==
    Contains(kw, job_text) \/ fuzzy_match_skill(kw, job_text)

\* the test of the count: kw in job_text
KeywordMatches(kw, job_text) == Contains(kw, job_text)

\* its value for each keyword of a CV and each posting's text, computed once
KeywordMatchResults ==
    [kw \in AllKeywords, job_text \in JobTexts |-> KeywordMatches(kw, job_text)]

\* the score of the number of matched keywords
KeywordStep(matched_keywords) ==
    IF matched_keywords = 0 THEN 0
    ELSE IF matched_keywords = 1 THEN 300
    ELSE IF matched_keywords = 2 THEN 500
    ELSE IF matched_keywords >= 3 THEN 700 + Min(200, (matched_keywords - 3) * 50)
    ELSE 0

calculate_keyword_match(keywords, job_text) ==
    LET matched_keywords ==
            Cardinality({kw \in keywords : KeywordMatchResults[kw, job_text]})
    IN  IF keywords = {} THEN 0 ELSE KeywordStep(matched_keywords)

(***************************************************************************)
(* JobMatcher._calculate_experience_match                                  *)
(***************************************************************************)
\* the first position >= i of s that holds no digit (Len(s)+1 at the end)
RECURSIVE SkipDigits(_, _)
SkipDigits(s, i) == IF i <= Len(s) /\ IsDigit(s[i]) THEN SkipDigits(s, i + 1) ELSE i

\* \s* from position i: the first position >= i that holds no whitespace
RECURSIVE SkipSpaces(_, _)
SkipSpaces(s, i) == IF i <= Len(s) /\ IsSpace(s[i]) THEN SkipSpaces(s, i + 1) ELSE i

\* int(digits)
RECURSIVE ToInt(_)
ToInt(digits) ==
    IF Len(digits) = 0 THEN 0
    ELSE 10 * ToInt(SubSeq(digits, 1, Len(digits) - 1)) + DigitValue(digits[Len(digits)])

\* (?:years?|yrs?) at position i: the position after it, or 0
YearsEnd(s, i) ==
    IF MatchAt(<<"y","e","a","r","s">>, s, i) THEN i + 5
    ELSE IF MatchAt(<<"y","e","a","r">>, s, i) THEN i + 4
    ELSE IF MatchAt(<<"y","r","s">>, s, i) THEN i + 3
    ELSE IF MatchAt(<<"y","r">>, s, i) THEN i + 2
    ELSE 0

\* r'(\d+)[\+]?\s*(?:years?|yrs?)\s*(?:of\s*)?(?:experience|exp)' matches at i
YearsOfExperienceAt(s, i) ==
    /\ i <= Len(s)
    /\ IsDigit(s[i])
    /\ LET d == SkipDigits(s, i)
           p == IF MatchAt(<<"+">>, s, d) THEN d + 1 ELSE d
           y == YearsEnd(s, SkipSpaces(s, p))
       IN  /\ y # 0
           /\ LET o == SkipSpaces(s, y)
                  e == IF MatchAt(<<"o","f">>, s, o) THEN SkipSpaces(s, o + 2) ELSE o
              IN  MatchAt(<<"e","x","p">>, s, e)

\* the phrases of (?:minimum|min|at least)
MinimumPhrases == <<<<"m","i","n","i","m","u","m">>, <<"m","i","n">>, <<"a","t"," ","l","e","a","s","t">>>>

\* the position of the digits when
\* r'(?:minimum|min|at least)\s*(\d+)\s*(?:years?|yrs?)' matches at i, or 0
MinimumYearsAt(s, i) ==
    LET ok(ph) == /\ MatchAt(MinimumPhrases[ph], s, i)
                  /\ LET d == SkipSpaces(s, i + Len(MinimumPhrases[ph]))
                     IN  /\ d <= Len(s)
                         /\ IsDigit(s[d])
                         /\ YearsEnd(s, SkipSpaces(s, SkipDigits(s, d))) # 0
        hits   == {ph \in 1..Len(MinimumPhrases) : ok(ph)}
    IN  IF hits = {} THEN 0
        ELSE LET ph == CHOOSE h \in hits : \A g \in hits : h <= g
             IN  SkipSpaces(s, i + Len(MinimumPhrases[ph]))

\* the loop over years_patterns: the first pattern that re.search finds,
\* at its leftmost match; 0 when neither matches
RequiredYears(job_text) ==
    LET first  == {i \in 1..Len(job_text) : YearsOfExperienceAt(job_text, i)}
        second == {i \in 1..Len(job_text) : MinimumYearsAt(job_text, i) # 0}
    IN  IF first # {}
        THEN LET i == CHOOSE a \in first : \A b \in first : a <= b
             IN  ToInt(SubSeq(job_text, i, SkipDigits(job_text, i) - 1))
        ELSE IF second # {}
        THEN LET i == CHOOSE a \in second : \A b \in second : a <= b
                 d == MinimumYearsAt(job_text, i)
             IN  ToInt(SubSeq(job_text, d, SkipDigits(job_text, d) - 1))
        ELSE 0

\* cv_years >= required_years * 0.7 is decided in tenths
\* a faulty gate: the candidate must exceed the requirement
ExperienceScoreStrict(required_years, cv_years) ==
    IF required_years = 0 THEN 1000
    ELSE IF cv_years > required_years THEN 1000
    ELSE IF 10 * cv_years > required_years * 7 THEN 700
    ELSE 300

\* lines 206-213: the score of the requirement and the candidate's years
ExperienceScore(required_years, cv_years) ==
    IF required_years = 0 THEN 1000
    ELSE IF cv_years >= required_years THEN 1000
    ELSE IF 10 * cv_years >= required_years * 7 THEN 700
    ELSE 300

calculate_experience_match(job, cv_years) ==
    ExperienceScore(RequiredYears(extract_job_text(job)), cv_years)

(***************************************************************************)
(* JobMatcher.match_job                                                    *)
(***************************************************************************)
\* a faulty bonus: the skills in the title are not capped at 0.30
TitleBonusUncapped(skills, keywords, job_title) ==
    LET title_skills   == Cardinality({skill \in skills : Contains(skill, job_title)})
        title_keywords == Cardinality({kw \in keywords : Contains(kw, job_title)})
    IN  IF Len(job_title) = 0 THEN 0
        ELSE title_skills * 100
             + (IF title_keywords > 0 THEN Min(200, title_keywords * 80) ELSE 0)

\* the bonus for skills and keywords found in the title
TitleBonus(skills, keywords, job_title) ==
    LET title_skills   == Cardinality({skill \in skills : Contains(skill, job_title)})
        title_keywords == Cardinality({kw \in keywords : Contains(kw, job_title)})
    IN  IF Len(job_title) = 0 THEN 0
        ELSE (IF title_skills > 0 THEN Min(300, title_skills * 100) ELSE 0)
             + (IF title_keywords > 0 THEN Min(200, title_keywords * 80) ELSE 0)

\* a faulty condition: the keyword score is not looked at
HasSkillMatch(matched_skills, keyword_score) ==
    Len(matched_skills) > 0

\* len(matched_skills) > 0 or keyword_score > 0, the condition of the
\* any-match bonus (line 244) and of the minimum score (line 270)
HasAnyMatch(matched_skills, keyword_score) ==
    Len(matched_skills) > 0 \/ keyword_score > 0

\* a faulty bonus: given whether or not anything matched
AnyMatchBonusAlways(matched_skills, keyword_score) == 150

\* a faulty bonus: a match earns nothing
AnyMatchBonusNone(matched_skills, keyword_score) == 0

AnyMatchBonus(matched_skills, keyword_score) ==
    IF HasAnyMatch(matched_skills, keyword_score) THEN 150 ELSE 0

\* a faulty bonus: each threshold is one skill too high
SkillCountBonusLate(matched_skills) ==
    IF Len(matched_skills) > 5 THEN 200
    ELSE IF Len(matched_skills) > 3 THEN 150
    ELSE IF Len(matched_skills) > 2 THEN 100
    ELSE 0

SkillCountBonus(matched_skills) ==
    IF Len(matched_skills) >= 5 THEN 200
    ELSE IF Len(matched_skills) >= 3 THEN 150
    ELSE IF Len(matched_skills) >= 2 THEN 100
    ELSE 0

\* a faulty base score: the experience term is left out
BaseScoreNoExperience(skill_score, keyword_score, experience_score) ==
    (skill_score * 600 + keyword_score * 200) \div 1000

\* skill_score * 0.6 + keyword_score * 0.2 + experience_score * 0.15; the
\* signals are multiples of 0.05 (0.3 and 0.7 for experience), so the
\* division is exact
BaseScore(skill_score, keyword_score, experience_score) ==
    (skill_score * 600 + keyword_score * 200 + experience_score * 150) \div 1000

\* min(1.0, base_score + title_bonus + any_match_bonus + skill_count_bonus)
CappedSum(base_score, title_bonus, any_match_bonus, skill_count_bonus) ==
    Min(1000, base_score + title_bonus + any_match_bonus + skill_count_bonus)

\* the minimum score of a job with any match
Floor(match_score, matched_skills, keyword_score) ==
    IF HasAnyMatch(matched_skills, keyword_score)
    THEN Max(match_score, 200)
    ELSE match_score

\* a faulty boost: the sum is not cut at 1.0
BoostUnclamped(match_score, title_bonus, matched_skills) ==
    IF title_bonus > 200 /\ Len(matched_skills) >= 2
    THEN match_score + 100
    ELSE match_score

\* the additional boost for strong skill matches in the title
Boost(match_score, title_bonus, matched_skills) ==
    IF title_bonus > 200 /\ Len(matched_skills) >= 2
    THEN Min(1000, match_score + 100)
    ELSE match_score

\* self: [cv_skills, skill_order, cv_keywords].  The value is the frame of
\* the call: its locals, match_score and matched_skills being what it returns.
match_job(self, job, cv_years) ==
    LET job_text          == extract_job_text(job)
        job_title         == Lower(Get(job, "title"))
        skills            == calculate_skill_match(self.skill_order, job_text)
        skill_score       == skills.score
        matched_skills    == skills.matched
        keyword_score     == calculate_keyword_match(self.cv_keywords, job_text)
        experience_score  == calculate_experience_match(job, cv_years)
        title_bonus       == TitleBonus(self.cv_skills, self.cv_keywords, job_title)
        any_match_bonus   == AnyMatchBonus(matched_skills, keyword_score)
        skill_count_bonus == SkillCountBonus(matched_skills)
        base_score        == BaseScore(skill_score, keyword_score, experience_score)
        capped            == CappedSum(base_score, title_bonus, any_match_bonus,
                                       skill_count_bonus)
        floored           == Floor(capped, matched_skills, keyword_score)
    IN  [ skill_score       |-> skill_score,
          matched_skills    |-> matched_skills,
          keyword_score     |-> keyword_score,
          experience_score  |-> experience_score,
          title_bonus       |-> title_bonus,
          any_match_bonus   |-> any_match_bonus,
          skill_count_bonus |-> skill_count_bonus,
          base_score        |-> base_score,
          match_score       |-> Boost(floored, title_bonus, matched_skills) ]

(***************************************************************************)
(* The state: one JobMatcher and its last match_job call                   *)
(***************************************************************************)
VARIABLES
    cv_skills,     \* self.cv_skills
    skill_order,   \* the order in which the set self.cv_skills iterates
    cv_keywords,   \* self.cv_keywords
    call,          \* the arguments of the last match_job call: [job, cv_years]
    frame,         \* the locals of that call
    result,        \* what it returned: [score, matched_skills]
    ref,           \* history: an earlier call and its result, once remembered
    threads,       \* the match_job calls of the threads that share the matcher
    trawler,       \* the JobTrawler: its seen jobs and its process_jobs run
    web,           \* web_app: trawler_running, the progress file, requests, threads
    alert_system   \* the AlertSystem: its configuration and its alerts file

vars == <<cv_skills, skill_order, cv_keywords, call, frame, result, ref,
          threads, trawler, web, alert_system>>

NoCall == [job |-> << >>, cv_years |-> 0]
NoFrame == << >>
NoResult == << >>
NoRef == << >>
NoThreads == << >>
NoTrawler == << >>
NoWeb == << >>
NoAlertSystem == << >>

called == result # NoResult

\* {s.lower() for s in cv_skills}, in the order the set iterates
LowerAll(skills) == Distinct([i \in 1..Len(skills) |-> Lower(skills[i])])

\* JobMatcher(cv_skills, cv_keywords): both sets are lower-cased
JobMatcherInit(skills, keywords) ==
    /\ cv_skills = {Lower(skill) : skill \in Range(skills)}
    /\ skill_order = LowerAll(skills)
    /\ cv_keywords = {Lower(kw) : kw \in keywords}

Init ==
    /\ \E skills \in SkillLists, keywords \in KeywordSets :
           JobMatcherInit(skills, keywords)
    /\ call = NoCall
    /\ frame = NoFrame
    /\ result = NoResult
    /\ ref = NoRef
    /\ threads = NoThreads
    /\ web = NoWeb
    /\ alert_system = NoAlertSystem
    /\ trawler = NoTrawler

\* the matcher a CV gives
Matcher(skills, keywords) ==
    [cv_skills   |-> {Lower(skill) : skill \in Range(skills)},
     skill_order |-> LowerAll(skills),
     cv_keywords |-> {Lower(kw) : kw \in keywords}]

Matchers == {Matcher(skills, keywords) : skills \in SkillLists, keywords \in KeywordSets}

PostingMatchers ==
    {Matcher(skills, keywords) :
        skills \in PostingSkillLists, keywords \in PostingKeywordSets}

\* match_job reads self, job and cv_years and nothing else: its value for
\* each matcher, posting and number of years, computed once
MatchJobResults ==
    [m \in Matchers, job \in Jobs, years \in Years |-> match_job(m, job, years)]

MatchPostingResults ==
    [m \in PostingMatchers, job \in Postings, years \in Years |->
        match_job(m, job, years)]

\* a faulty call: match_job is given years of experience of the CV
TrawlerResultsWithYears ==
    [m \in PostingMatchers, job \in TrawlerPostings |-> match_job(m, job, MaxYears)]

\* process_jobs calls match_job(job): cv_years is 0
TrawlerResults ==
    [m \in PostingMatchers, job \in TrawlerPostings |-> match_job(m, job, 0)]

matcher == [cv_skills |-> cv_skills, skill_order |-> skill_order, cv_keywords |-> cv_keywords]

\* the history notes whether another call came after the remembered one
NoteCall(job, cv_years) ==
    IF ref # NoRef /\ ref.call # [job |-> job, cv_years |-> cv_years]
    THEN [ref EXCEPT !.others = TRUE]
    ELSE ref

\* a faulty call: the list of matched skills is shared between the calls and
\* never emptied
MatchJobSharedList(job, cv_years) ==
    LET earlier == IF called THEN result.matched_skills ELSE << >>
        now     == MatchJobResults[matcher, job, cv_years]
        added   == SelectSeq(now.matched_skills,
                             LAMBDA skill : \A i \in 1..Len(earlier) : earlier[i] # skill)
    IN  /\ call' = [job |-> job, cv_years |-> cv_years]
        /\ frame' = now
        /\ result' = [score |-> now.match_score, matched_skills |-> earlier \o added]
        /\ ref' = NoteCall(job, cv_years)
        /\ UNCHANGED <<cv_skills, skill_order, cv_keywords, threads, trawler,
                       web, alert_system>>

\* the call match_job(job, cv_years) ends with the locals now
MatchJobReturns(job, cv_years, now) ==
    /\ call' = [job |-> job, cv_years |-> cv_years]
    /\ frame' = now
    /\ result' = [score |-> now.match_score, matched_skills |-> now.matched_skills]
    /\ ref' = NoteCall(job, cv_years)
    /\ UNCHANGED <<cv_skills, skill_order, cv_keywords, threads, trawler,
                   web, alert_system>>

\* match_score, matched_skills = self.job_matcher.match_job(job, cv_years)
MatchJob(job, cv_years) ==
    MatchJobReturns(job, cv_years, MatchJobResults[matcher, job, cv_years])

Next == \E job \in Jobs, cv_years \in Years : MatchJob(job, cv_years)

Spec == Init /\ [][Next]_vars

(***************************************************************************)
(* Repeated calls: the same matcher, with one earlier call and its result  *)
(* remembered, for the CVs with the most skills and keywords               *)
(***************************************************************************)
InitRepeat ==
    /\ \E skills \in SkillLists, keywords \in KeywordSets :
           /\ Len(skills) = Min(MaxSkills, Len(CvSkillList))
           /\ Cardinality(keywords) = Min(MaxKeywords, Len(CvKeywordList))
           /\ JobMatcherInit(skills, keywords)
    /\ call = NoCall
    /\ frame = NoFrame
    /\ result = NoResult
    /\ ref = NoRef
    /\ threads = NoThreads
    /\ web = NoWeb
    /\ alert_system = NoAlertSystem
    /\ trawler = NoTrawler

Remember ==
    /\ called
    /\ ref = NoRef
    /\ ref' = [call |-> call, result |-> result, others |-> FALSE]
    /\ UNCHANGED <<cv_skills, skill_order, cv_keywords, call, frame, result,
                   threads, trawler, web, alert_system>>

NextRepeat ==
    \/ \E job \in Jobs, cv_years \in Years : MatchJob(job, cv_years)
    \/ Remember

SpecRepeat == InitRepeat /\ [][NextRepeat]_vars

(***************************************************************************)
(* _calculate_skill_match on its own: any CV over the pool of skills, and  *)
(* the skill match of each posting's text                                  *)
(***************************************************************************)
InitSkillMatch ==
    /\ \E skills \in SkillLists \cup PoolLists : JobMatcherInit(skills, {})
    /\ call = NoCall
    /\ frame = NoFrame
    /\ result = NoResult
    /\ ref = NoRef
    /\ threads = NoThreads
    /\ web = NoWeb
    /\ alert_system = NoAlertSystem
    /\ trawler = NoTrawler

\* job_text = self._extract_job_text(job) and
\* skill_score, matched_skills = self._calculate_skill_match(job_text), the
\* first steps of match_job; the years are not read
CalculateSkillMatch(job) ==
    LET skills == calculate_skill_match(skill_order, extract_job_text(job))
    IN  /\ call' = [job |-> job, cv_years |-> 0]
        /\ result' = [score |-> skills.score, matched_skills |-> skills.matched]
        /\ UNCHANGED <<cv_skills, skill_order, cv_keywords, frame, ref,
                       threads, trawler, web, alert_system>>

NextSkillMatch == \E job \in Jobs : CalculateSkillMatch(job)

SpecSkillMatch == InitSkillMatch /\ [][NextSkillMatch]_vars

(***************************************************************************)
(* match_job on the postings that differ in letter case, in the company or *)
(* in the fields that are present                                          *)
(***************************************************************************)
InitPostings ==
    /\ \E skills \in PostingSkillLists, keywords \in PostingKeywordSets :
           JobMatcherInit(skills, keywords)
    /\ call = NoCall
    /\ frame = NoFrame
    /\ result = NoResult
    /\ ref = NoRef
    /\ threads = NoThreads
    /\ web = NoWeb
    /\ alert_system = NoAlertSystem
    /\ trawler = NoTrawler

\* match_job(job, cv_years) for one of these postings
MatchPosting(job, cv_years) ==
    MatchJobReturns(job, cv_years, MatchPostingResults[matcher, job, cv_years])

NextPostings == \E job \in Postings, cv_years \in Years : MatchPosting(job, cv_years)

SpecPostings == InitPostings /\ [][NextPostings]_vars

(***************************************************************************)
(* _fuzzy_match_skill on its own: one call for each skill and text         *)
(***************************************************************************)
\* the keys and the values of variations, and other skills
FuzzyTerms ==
    {variations[e][1] : e \in 1..Len(variations)}
    \cup {variations[e][2] : e \in 1..Len(variations)}
    \cup { <<"p","y","t","h","o","n">>, <<"n","e","t","w","o","r","k","i","n","g">>, <<"p","r","o","j","e","c","t"," ","m","a","n","a","g","e","m","e","n","t">>, <<"s","e","o">>, <<"g","o">>, <<"c">> }

\* each key and value on its own and inside a sentence, and other texts
FuzzyTexts ==
    {variations[e][1] : e \in 1..Len(variations)}
    \cup {variations[e][2] : e \in 1..Len(variations)}
    \cup {<<"o","u","r"," ","t","e","a","m"," ","u","s","e","s"," ">> \o variations[e][1] \o <<" ","d","a","i","l","y">> : e \in 1..Len(variations)}
    \cup {<<"o","u","r"," ","t","e","a","m"," ","u","s","e","s"," ">> \o variations[e][2] \o <<" ","d","a","i","l","y">> : e \in 1..Len(variations)}
    \cup { << >>, <<"n","e","t","w","o","r","k","s">>, <<"m","a","n","a","g","e","m","e","n","t"," ","o","f"," ","a"," ","p","r","o","j","e","c","t">>, <<"k","u","b","e"," ","c","l","u","s","t","e","r">>,
           <<"p","y","t","h","o","n","i","c"," ","c","o","d","e">>, <<"s","e"," ","g","o">>, <<"g","o","l","a","n","g">>, <<"p","r","o","j","e","c","t","s">>, <<"s","e","r","v","e","r"," ","w","i","t","h"," ","s","q","l">>,
           <<"p","y","t","h","o","n","3",","," ","s","q","l">>, <<"c">> }

InitFuzzy ==
    /\ JobMatcherInit(<< >>, {})
    /\ \E skill \in FuzzyTerms, job_text \in FuzzyTexts :
           call = [skill |-> skill, job_text |-> job_text]
    /\ frame = NoFrame
    /\ result = NoResult
    /\ ref = NoRef
    /\ threads = NoThreads
    /\ web = NoWeb
    /\ alert_system = NoAlertSystem
    /\ trawler = NoTrawler

\* self._fuzzy_match_skill(skill, job_text)
FuzzyMatchSkill ==
    /\ result = NoResult
    /\ result' = [present |-> fuzzy_match_skill(call.skill, call.job_text)]
    /\ UNCHANGED <<cv_skills, skill_order, cv_keywords, call, frame, ref,
                   threads, trawler, web, alert_system>>

NextFuzzy == FuzzyMatchSkill

SpecFuzzy == InitFuzzy /\ [][NextFuzzy]_vars

(***************************************************************************)
(* Threads that call match_job on the same JobMatcher: each call goes       *)
(* through match_job statement by statement, with its own locals           *)
(***************************************************************************)
Threads == {"t1", "t2"}

IdleThread == [pc |-> "idle"]

InitThreads ==
    /\ \E skills \in SkillLists, keywords \in KeywordSets :
           /\ Len(skills) = Min(MaxSkills, Len(CvSkillList))
           /\ Cardinality(keywords) = Min(MaxKeywords, Len(CvKeywordList))
           /\ JobMatcherInit(skills, keywords)
    /\ call = NoCall
    /\ frame = NoFrame
    /\ result = NoResult
    /\ ref = NoRef
    /\ threads = [t \in Threads |-> IdleThread]
    /\ trawler = NoTrawler
    /\ web = NoWeb
    /\ alert_system = NoAlertSystem

\* the thread's locals with some of them assigned
Assign(t, locals) == threads' = [threads EXCEPT ![t] = locals @@ threads[t]]

\* match_job(job), lines 215-221: arg is the posting as it was passed, job
\* the posting as it is
ThreadCall(t, job) ==
    /\ threads[t].pc = "idle"
    /\ Assign(t, [ pc        |-> "skills",
                   arg       |-> job,
                   job       |-> job,
                   cv_years  |-> 0,
                   job_text  |-> extract_job_text(job),
                   job_title |-> Lower(Get(job, "title")) ])
    /\ UNCHANGED <<cv_skills, skill_order, cv_keywords, call, frame, result, ref, trawler,
                   web, alert_system>>

\* a faulty line 224: the skills that matched are taken out of self.cv_skills
ThreadSkillMatchConsuming(t) ==
    /\ threads[t].pc = "skills"
    /\ LET skills == calculate_skill_match(skill_order, threads[t].job_text)
       IN  /\ Assign(t, [ pc             |-> "keywords",
                          skill_score    |-> skills.score,
                          matched_skills |-> skills.matched ])
           /\ cv_skills' = cv_skills \ Range(skills.matched)
           /\ skill_order' = SelectSeq(skill_order,
                                       LAMBDA skill : skill \notin Range(skills.matched))
    /\ UNCHANGED <<cv_keywords, call, frame, result, ref, trawler, web, alert_system>>

\* line 224
ThreadSkillMatch(t) ==
    /\ threads[t].pc = "skills"
    /\ LET skills == calculate_skill_match(skill_order, threads[t].job_text)
       IN  Assign(t, [ pc             |-> "keywords",
                       skill_score    |-> skills.score,
                       matched_skills |-> skills.matched ])
    /\ UNCHANGED <<cv_skills, skill_order, cv_keywords, call, frame, result, ref, trawler,
                   web, alert_system>>

\* line 225
ThreadKeywordMatch(t) ==
    /\ threads[t].pc = "keywords"
    /\ Assign(t, [ pc            |-> "experience",
                   keyword_score |-> calculate_keyword_match(cv_keywords,
                                                             threads[t].job_text) ])
    /\ UNCHANGED <<cv_skills, skill_order, cv_keywords, call, frame, result, ref, trawler,
                   web, alert_system>>

\* line 226
ThreadExperienceMatch(t) ==
    /\ threads[t].pc = "experience"
    /\ Assign(t, [ pc               |-> "bonuses",
                   experience_score |-> calculate_experience_match(threads[t].job,
                                                                   threads[t].cv_years) ])
    /\ UNCHANGED <<cv_skills, skill_order, cv_keywords, call, frame, result, ref, trawler,
                   web, alert_system>>

\* lines 229-254
ThreadBonuses(t) ==
    /\ threads[t].pc = "bonuses"
    /\ Assign(t, [ pc                |-> "combine",
                   title_bonus       |-> TitleBonus(cv_skills, cv_keywords,
                                                    threads[t].job_title),
                   any_match_bonus   |-> AnyMatchBonus(threads[t].matched_skills,
                                                       threads[t].keyword_score),
                   skill_count_bonus |-> SkillCountBonus(threads[t].matched_skills) ])
    /\ UNCHANGED <<cv_skills, skill_order, cv_keywords, call, frame, result, ref, trawler,
                   web, alert_system>>

\* lines 259-277: the score is computed and returned with the matched skills
ThreadReturn(t) ==
    /\ threads[t].pc = "combine"
    /\ LET th         == threads[t]
           base_score == BaseScore(th.skill_score, th.keyword_score, th.experience_score)
           capped     == CappedSum(base_score, th.title_bonus, th.any_match_bonus,
                                   th.skill_count_bonus)
           floored    == Floor(capped, th.matched_skills, th.keyword_score)
       IN  Assign(t, [ pc          |-> "done",
                       base_score  |-> base_score,
                       match_score |-> Boost(floored, th.title_bonus, th.matched_skills) ])
    /\ UNCHANGED <<cv_skills, skill_order, cv_keywords, call, frame, result, ref, trawler,
                   web, alert_system>>

\* the caller has taken the result; the thread may call again
ThreadDone(t) ==
    /\ threads[t].pc = "done"
    /\ threads' = [threads EXCEPT ![t] = IdleThread]
    /\ UNCHANGED <<cv_skills, skill_order, cv_keywords, call, frame, result, ref, trawler,
                   web, alert_system>>

NextThreads ==
    \E t \in Threads :
        \/ \E job \in Jobs : ThreadCall(t, job)
        \/ ThreadSkillMatch(t)
        \/ ThreadKeywordMatch(t)
        \/ ThreadExperienceMatch(t)
        \/ ThreadBonuses(t)
        \/ ThreadReturn(t)
        \/ ThreadDone(t)

SpecThreads == InitThreads /\ [][NextThreads]_vars

(***************************************************************************)
(* JobTrawler (src/job_trawler.py): the location filters                   *)
(***************************************************************************)
RECURSIVE LStrip(_, _)
LStrip(s, chars) ==
    IF s = << >> \/ Head(s) \notin chars THEN s ELSE LStrip(Tail(s), chars)

RECURSIVE RStrip(_, _)
RStrip(s, chars) ==
    IF s = << >> \/ s[Len(s)] \notin chars THEN s
    ELSE RStrip(SubSeq(s, 1, Len(s) - 1), chars)

\* s.strip(chars)
Strip(s, chars) == RStrip(LStrip(s, chars), chars)

\* set(re.findall(r'\b\w+\b', s)): the maximal runs of word characters
Words(s) ==
    {SubSeq(s, p[1], p[2]) :
        p \in {q \in (1..Len(s)) \X (1..Len(s)) :
                 /\ q[1] <= q[2]
                 /\ \A k \in q[1]..q[2] : IsWordChar(s[k])
                 /\ q[1] = 1 \/ ~IsWordChar(s[q[1] - 1])
                 /\ q[2] = Len(s) \/ ~IsWordChar(s[q[2] + 1])}}

uk_indicators == {
    <<"u","k">>, <<"u","n","i","t","e","d"," ","k","i","n","g","d","o","m">>, <<"e","n","g","l","a","n","d">>, <<"s","c","o","t","l","a","n","d">>, <<"w","a","l","e","s">>, <<"n","o","r","t","h","e","r","n"," ","i","r","e","l","a","n","d">>,
    <<"l","o","n","d","o","n">>, <<"m","a","n","c","h","e","s","t","e","r">>, <<"b","i","r","m","i","n","g","h","a","m">>, <<"e","d","i","n","b","u","r","g","h">>, <<"g","l","a","s","g","o","w">>, <<"b","r","i","s","t","o","l">>,
    <<"l","e","e","d","s">>, <<"l","i","v","e","r","p","o","o","l">>, <<"n","e","w","c","a","s","t","l","e">>, <<"s","h","e","f","f","i","e","l","d">>, <<"c","a","r","d","i","f","f">>, <<"b","e","l","f","a","s","t">>,
    <<"c","a","m","b","r","i","d","g","e">>, <<"o","x","f","o","r","d">>, <<"b","r","i","g","h","t","o","n">>, <<"y","o","r","k">>, <<"n","o","t","t","i","n","g","h","a","m">>, <<"l","e","i","c","e","s","t","e","r">> }

eu_countries == {
    <<"a","u","s","t","r","i","a">>, <<"v","i","e","n","n","a">>, <<"b","e","l","g","i","u","m">>, <<"b","r","u","s","s","e","l","s">>, <<"b","u","l","g","a","r","i","a">>, <<"s","o","f","i","a">>,
    <<"c","r","o","a","t","i","a">>, <<"z","a","g","r","e","b">>, <<"c","y","p","r","u","s">>, <<"n","i","c","o","s","i","a">>, <<"c","z","e","c","h"," ","r","e","p","u","b","l","i","c">>, <<"p","r","a","g","u","e">>,
    <<"d","e","n","m","a","r","k">>, <<"c","o","p","e","n","h","a","g","e","n">>, <<"e","s","t","o","n","i","a">>, <<"t","a","l","l","i","n","n">>, <<"f","i","n","l","a","n","d">>, <<"h","e","l","s","i","n","k","i">>,
    <<"f","r","a","n","c","e">>, <<"p","a","r","i","s">>, <<"l","y","o","n">>, <<"m","a","r","s","e","i","l","l","e">>, <<"t","o","u","l","o","u","s","e">>, <<"n","i","c","e">>, <<"n","a","n","t","e","s">>,
    <<"g","e","r","m","a","n","y">>, <<"b","e","r","l","i","n">>, <<"m","u","n","i","c","h">>, <<"h","a","m","b","u","r","g">>, <<"f","r","a","n","k","f","u","r","t">>, <<"c","o","l","o","g","n","e">>, <<"s","t","u","t","t","g","a","r","t">>,
    <<"g","r","e","e","c","e">>, <<"a","t","h","e","n","s">>, <<"t","h","e","s","s","a","l","o","n","i","k","i">>, <<"h","u","n","g","a","r","y">>, <<"b","u","d","a","p","e","s","t">>, <<"i","r","e","l","a","n","d">>, <<"d","u","b","l","i","n">>,
    <<"i","t","a","l","y">>, <<"r","o","m","e">>, <<"m","i","l","a","n">>, <<"n","a","p","l","e","s">>, <<"t","u","r","i","n">>, <<"p","a","l","e","r","m","o">>, <<"g","e","n","o","a">>, <<"b","o","l","o","g","n","a">>,
    <<"l","a","t","v","i","a">>, <<"r","i","g","a">>, <<"l","i","t","h","u","a","n","i","a">>, <<"v","i","l","n","i","u","s">>, <<"l","u","x","e","m","b","o","u","r","g">>, <<"m","a","l","t","a">>, <<"v","a","l","l","e","t","t","a">>,
    <<"n","e","t","h","e","r","l","a","n","d","s">>, <<"a","m","s","t","e","r","d","a","m">>, <<"r","o","t","t","e","r","d","a","m">>, <<"t","h","e"," ","h","a","g","u","e">>, <<"u","t","r","e","c","h","t">>, <<"e","i","n","d","h","o","v","e","n">>,
    <<"p","o","l","a","n","d">>, <<"w","a","r","s","a","w">>, <<"k","r","a","k","o","w">>, <<"g","d","a","n","s","k">>, <<"w","r","o","c","l","a","w">>, <<"p","o","r","t","u","g","a","l">>, <<"l","i","s","b","o","n">>, <<"p","o","r","t","o">>,
    <<"r","o","m","a","n","i","a">>, <<"b","u","c","h","a","r","e","s","t">>, <<"c","l","u","j">>, <<"t","i","m","i","s","o","a","r","a">>, <<"s","l","o","v","a","k","i","a">>, <<"b","r","a","t","i","s","l","a","v","a">>,
    <<"s","l","o","v","e","n","i","a">>, <<"l","j","u","b","l","j","a","n","a">>, <<"s","p","a","i","n">>, <<"m","a","d","r","i","d">>, <<"b","a","r","c","e","l","o","n","a">>, <<"v","a","l","e","n","c","i","a">>, <<"s","e","v","i","l","l","e">>,
    <<"z","a","r","a","g","o","z","a">>, <<"m","a","l","a","g","a">>, <<"s","w","e","d","e","n">>, <<"s","t","o","c","k","h","o","l","m">>, <<"g","o","t","h","e","n","b","u","r","g">>, <<"m","a","l","m","o">> }

europe_indicators == { <<"e","u","r","o","p","e">>, <<"e","u","r","o","p","e","a","n">>, <<"e","u">>, <<"e",".","u",".">>, <<"e","e","a">>, <<"s","c","h","e","n","g","e","n">> }

eu_country_codes == {
    <<"a","t">>, <<"b","e">>, <<"b","g">>, <<"h","r">>, <<"c","y">>, <<"c","z">>, <<"d","k">>, <<"e","e">>, <<"f","i">>, <<"f","r">>, <<"d","e">>, <<"g","r">>,
    <<"h","u">>, <<"i","e">>, <<"i","t">>, <<"l","v">>, <<"l","t">>, <<"l","u">>, <<"m","t">>, <<"n","l">>, <<"p","l">>, <<"p","t">>, <<"r","o">>, <<"s","k">>,
    <<"s","i">>, <<"e","s">>, <<"s","e">> }

Punctuation == {".", ",", ";", ":", "!", "?", "(", ")", "[", "]", "{", "}"}

\* _is_european_location: a location that names no European place is not
\* European, whether or not it names a place elsewhere (lines 171-188)
is_european_location(location) ==
    IF location = << >> THEN FALSE
    ELSE LET location_lower == Lower(location)
             location_words == Split(location_lower)
         IN  \/ \E indicator \in uk_indicators : Contains(indicator, location_lower)
             \/ \E country \in eu_countries : Contains(country, location_lower)
             \/ \E indicator \in europe_indicators : Contains(indicator, location_lower)
             \/ \E i \in 1..Len(location_words) :
                    LET clean_word == Strip(location_words[i], Punctuation)
                    IN  \/ Len(clean_word) = 2 /\ clean_word \in eu_country_codes
                        \/ clean_word = <<"g","b">>
                        \/ clean_word = <<"u","k">>

\* [A-Z] and [a-z] under re.IGNORECASE
IsLetter(c) == c \in LowerLetters \/ c \in DOMAIN UpperToLower

\* the first position >= i of s that holds no letter
RECURSIVE SkipLetters(_, _)
SkipLetters(s, i) == IF i <= Len(s) /\ IsLetter(s[i]) THEN SkipLetters(s, i + 1) ELSE i

\* [:\s]+ from position i: the first position >= i that holds neither
RECURSIVE SkipSeparators(_, _)
SkipSeparators(s, i) ==
    IF i <= Len(s) /\ (s[i] = ":" \/ IsSpace(s[i])) THEN SkipSeparators(s, i + 1) ELSE i

\* a or, when a is 0, b
OrElse(a, b) == IF a # 0 THEN a ELSE b

\* the end j of the letters from position i when they are two or more, or 0
TwoOrMore(i, j) == IF j >= i + 2 THEN j ELSE 0

\* [A-Z][a-z]+ at position i: the position after it, or 0
NameEnd(s, i) == TwoOrMore(i, SkipLetters(s, i))

\* [A-Z][a-z]+ at position j, after white space from i to j: the position
\* after it, or 0
NameAfter(s, i, j) == IF j > i THEN NameEnd(s, j) ELSE 0

\* \s+[A-Z][a-z]+ at position i: the position after it, or 0
NextNameEnd(s, i) == NameAfter(s, i, SkipSpaces(s, i))

\* [A-Z]{2} at position j: the position after it, or 0
TwoLetters(s, j) ==
    IF j + 1 <= Len(s) /\ IsLetter(s[j]) /\ IsLetter(s[j + 1]) THEN j + 2 ELSE 0

\* [A-Z]{2} at position j, after white space from i to j
StateAfter(s, i, j) == IF j > i THEN TwoLetters(s, j) ELSE 0

\* \s+[A-Z]{2} at position i: the position after it, or 0
StateEnd(s, i) == StateAfter(s, i, SkipSpaces(s, i))

\* ,\s*([A-Z]{2}) at position i: the position after it, or 0
CommaStateEnd(s, i) ==
    IF i <= Len(s) /\ s[i] = "," THEN TwoLetters(s, SkipSpaces(s, i + 1)) ELSE 0

\* (?:\s+[A-Z]{2})? after the names, which end before position second
LabelState(s, second) == OrElse(StateEnd(s, second), second)

\* (?:\s+[A-Z][a-z]+)?(?:\s+[A-Z]{2})? after the first name, which ends
\* before position first, or 0 when there is no first name
LabelRest(s, first) ==
    IF first = 0 THEN 0 ELSE LabelState(s, OrElse(NextNameEnd(s, first), first))

\* ([A-Z][a-z]+...) at position j, after [:\s]+ from i to j
LabelNames(s, i, j) == IF j > i THEN LabelRest(s, NameEnd(s, j)) ELSE 0

\* r'location[:\s]+([A-Z][a-z]+(?:\s+[A-Z][a-z]+)?(?:\s+[A-Z]{2})?)' at
\* position i: the position after the match, or 0
LocationLabelAt(s, i) ==
    IF MatchAt(<<"l","o","c","a","t","i","o","n">>, Lower(s), i)
    THEN LabelNames(s, i + 8, SkipSeparators(s, i + 8))
    ELSE 0

\* ,\s*([A-Z]{2}) after the second name when there is one and the comma
\* follows it, else after the first
CityStateOf(s, first, second) ==
    OrElse(IF second # 0 THEN CommaStateEnd(s, second) ELSE 0, CommaStateEnd(s, first))

\* (?:\s+[A-Z][a-z]+)?,\s*([A-Z]{2}) after the first name
CityRest(s, first) ==
    IF first = 0 THEN 0 ELSE CityStateOf(s, first, NextNameEnd(s, first))

\* r'([A-Z][a-z]+(?:\s+[A-Z][a-z]+)?),\s*([A-Z]{2})' at position i: the
\* position after the match, or 0; the second name is tried first
CityStateAt(s, i) == IF i > Len(s) THEN 0 ELSE CityRest(s, NameEnd(s, i))

\* (remote|on[- ]site|hybrid) at position i of a text in lower case
WorkplaceIn(lower, i) ==
    IF MatchAt(<<"r","e","m","o","t","e">>, lower, i) THEN i + 6
    ELSE IF MatchAt(<<"o","n","-","s","i","t","e">>, lower, i) THEN i + 7
    ELSE IF MatchAt(<<"o","n"," ","s","i","t","e">>, lower, i) THEN i + 7
    ELSE IF MatchAt(<<"h","y","b","r","i","d">>, lower, i) THEN i + 6
    ELSE 0

\* r'(remote|on[- ]site|hybrid)' at position i: the position after the
\* match, or 0
WorkplaceAt(s, i) == WorkplaceIn(Lower(s), i)

\* the pattern whose matches end at ends[i] from position i is found
Found(ends) == \E i \in DOMAIN ends : ends[i] # 0

\* match.group(0) of the leftmost match
Group0(desc, ends, i) == SubSeq(desc, i, ends[i] - 1)

\* re.search: the leftmost match of the pattern
Leftmost(desc, ends) ==
    Group0(desc, ends, CHOOSE a \in DOMAIN ends :
                           /\ ends[a] # 0
                           /\ \A b \in DOMAIN ends : ends[b] # 0 => a <= b)

\* lines 100-104: the first of the three patterns that is found, '' when
\* none is
FirstFound(desc, label, citystate, workplace) ==
    IF Found(label) THEN Leftmost(desc, label)
    ELSE IF Found(citystate) THEN Leftmost(desc, citystate)
    ELSE IF Found(workplace) THEN Leftmost(desc, workplace)
    ELSE << >>

\* re.search(pattern, desc).group(0) for the first of the three patterns
\* that is found, at its leftmost match; '' when none is found
SearchLocation(desc) ==
    FirstFound(desc, [i \in 1..Len(desc) |-> LocationLabelAt(desc, i)],
                     [i \in 1..Len(desc) |-> CityStateAt(desc, i)],
                     [i \in 1..Len(desc) |-> WorkplaceAt(desc, i)])

\* _extract_job_location: the location field or, without one, what the
\* patterns find in full_description or else snippet
extract_job_location(job) ==
    IF Get(job, "location") # << >> THEN Lower(Get(job, "location"))
    ELSE Lower(SearchLocation(IF Get(job, "full_description") # << >>
                              THEN Get(job, "full_description")
                              ELSE Get(job, "snippet")))

common_words == { <<"o","r">>, <<"a","n","d">>, <<"t","h","e">>, <<"a">>, <<"a","n">>, <<"i","n">>, <<"a","t">>, <<"o","n">>, <<"f","o","r">> }

\* _location_matches
location_matches(desired_location, job_location) ==
    LET desired_lower == Lower(desired_location)
        job_lower     == Lower(job_location)
        desired_parts == Words(desired_lower) \ common_words
        job_parts     == Words(job_lower) \ common_words
    IN  \/ Contains(<<"r","e","m","o","t","e">>, desired_lower)
        \/ Contains(<<"r","e","m","o","t","e">>, job_lower)
        \/ desired_parts \cap job_parts # {}

(***************************************************************************)
(* JobTrawler: the configuration                                           *)
(***************************************************************************)
\* config.json as it may be: without settings, with a threshold, with
\* skip_job_details and a location
Configs == {
    << >>,
    [ matching |-> [ min_score |-> 150 ] ],
    [ matching |-> [ min_score |-> 800, skip_job_details |-> TRUE ],
      search   |-> [ location |-> <<" "," ","L","o","n","d","o","n"," ">> ] ],
    [ matching |-> [ skip_job_details |-> TRUE ],
      search   |-> [ location |-> <<"R","e","m","o","t","e">> ] ] }

\* self.config.get(section, {}).get(key, default)
ConfigGet(config, section, key, default) ==
    IF section \in DOMAIN config /\ key \in DOMAIN config[section]
    THEN config[section][key]
    ELSE default

\* a faulty threshold test: a score equal to the threshold does not pass
PassesThresholdStrictly(match_score, min_score) == match_score > min_score

\* line 2947
PassesThreshold(match_score, min_score) == match_score >= min_score

\* line 2887
JobId(job) == job["source"] \o <<"_">> \o job["title"] \o <<"_">> \o job["company"]

\* lines 2921-2924: the location field or, without one, the extracted location
JobLocationStr(job) ==
    IF Get(job, "location") # << >> THEN Get(job, "location")
    ELSE extract_job_location(job)

\* a faulty filter: no posting is excluded for its location
NonEuropeanNever(job_location_str) == FALSE

\* lines 2926-2932: the posting is skipped as non-European
NonEuropean(job_location_str) ==
    /\ job_location_str # << >>
    /\ ~is_european_location(job_location_str)

\* lines 2934-2943: the posting is skipped for the location of config.json
Elsewhere(location_config, job_location) ==
    /\ Lower(Strip(location_config, {" "})) \notin
           { << >>, <<"y","o","u","r"," ","c","i","t","y",","," ","s","t","a","t","e"," ","o","r"," ","r","e","m","o","t","e">>, <<"r","e","m","o","t","e">> }
    /\ job_location # << >>
    /\ ~location_matches(location_config, job_location)

\* lines 2916-2950 once the two location filters are decided
Decided(job, scored, non_european, elsewhere, min_score) ==
    [ job      |-> Put(Put(job, "match_score", scored.match_score),
                       "matched_skills", scored.matched_skills),
      score    |-> scored.match_score,
      experience |-> scored.experience_score,
      filtered |-> non_european \/ elsewhere,
      relevant |-> /\ ~non_european
                   /\ ~elsewhere
                   /\ PassesThreshold(scored.match_score, min_score) ]

\* lines 2916-2950 for a posting that match_job has scored: the two
\* location filters and the threshold
Filtered(config, job, scored) ==
    Decided(job, scored,
            NonEuropean(JobLocationStr(job)),
            Elsewhere(ConfigGet(config, "search", "location", << >>),
                      extract_job_location(job)),
            ConfigGet(config, "matching", "min_score", 500))

\* lines 2916-2950 for a posting whose details have been looked up
Outcome(m, config, job) == Filtered(config, job, TrawlerResults[m, Posting(job)])

DetailedJobs ==
    UNION {Details(job, skip_details) : job \in CrawledJobs, skip_details \in BOOLEAN}

\* Outcome reads the matcher, the configuration and the posting and nothing
\* else: its value for each of them, computed once
Outcomes ==
    [m \in PostingMatchers, config \in Configs, job \in DetailedJobs |->
        Outcome(m, config, job)]

(***************************************************************************)
(* JobTrawler: process_jobs, run after run                                 *)
(*                                                                         *)
(* trawler holds the configuration, seen_jobs.json (file), self.seen_jobs, *)
(* the position in process_jobs (pc) and its locals all_jobs (the postings *)
(* not yet looked at) and relevant_jobs.  The history is kept with them:   *)
(* processed notes what each iteration of the loop of this run did, alerts *)
(* is what send_alerts was given in this run, placed and alerted are the   *)
(* identifiers that were ever put in relevant_jobs and ever given to       *)
(* send_alerts, skipped.jobs (kept where skipped.noted, in SpecSkipped) are *)
(* the postings, as crawled, that an earlier run scored and did not put in *)
(* relevant_jobs, events is what the latest run wrote, in order: the stages  *)
(* written to the progress file (progress_file says whether the run was    *)
(* given one), a stage written several times in a row noted once, and      *)
(* "saved" for seen_jobs.json.                                             *)
(***************************************************************************)
MaxCrawl == 2

\* what crawl_job_boards may return
CrawlLists == UNION {[1..n -> CrawledJobs] : n \in 0..MaxCrawl}

NoFile == [exists |-> FALSE, ids |-> {}]

\* a faulty load: seen_jobs.json is never found
LoadSeenJobsNotFound(file) == {}

\* _load_seen_jobs
LoadSeenJobs(file) == IF file.exists THEN file.ids ELSE {}

\* JobTrawler.__init__ before any run, with no seen_jobs.json
NewTrawler(config) ==
    [ config        |-> config,
      file          |-> NoFile,
      seen_jobs     |-> LoadSeenJobs(NoFile),
      pc            |-> "idle",
      all_jobs      |-> << >>,
      relevant_jobs |-> << >>,
      processed     |-> << >>,
      alerts        |-> << >>,
      placed        |-> {},
      alerted       |-> {},
      skipped       |-> [noted |-> FALSE, jobs |-> {}],
      progress_file |-> FALSE,
      events        |-> << >> ]

InitTrawler ==
    /\ \E skills \in PostingSkillLists, keywords \in PostingKeywordSets :
           JobMatcherInit(skills, keywords)
    /\ call = NoCall
    /\ frame = NoFrame
    /\ result = NoResult
    /\ ref = NoRef
    /\ threads = NoThreads
    /\ web = NoWeb
    /\ alert_system = NoAlertSystem
    /\ \E config \in Configs : trawler = NewTrawler(config)

\* the program is started again: JobTrawler.__init__ loads seen_jobs.json
JobTrawlerInit ==
    /\ trawler.pc = "idle"
    /\ trawler' = [trawler EXCEPT !.seen_jobs = LoadSeenJobs(trawler.file)]
    /\ UNCHANGED <<cv_skills, skill_order, cv_keywords, call, frame, result, ref, threads,
                   web, alert_system>>

\* _update_progress, lines 2549-2565, called under 'if progress_file:'
UpdateProgress(progress_file, events, stage) ==
    IF progress_file /\ (events = << >> \/ events[Len(events)] # stage)
    THEN Append(events, stage)
    ELSE events

\* self.seen_jobs after lines 2947-2949: a faulty version marks every
\* scored posting
AddSeenAlways(seen_jobs, job_id, relevant) == seen_jobs \cup {job_id}

\* self.seen_jobs after lines 2947-2949
AddSeen(seen_jobs, job_id, relevant) ==
    IF relevant THEN seen_jobs \cup {job_id} ELSE seen_jobs

\* process_jobs up to the loop, lines 2851-2883; crawl_job_boards writes
\* the stage 'crawling' and no other (lines 2612-2846)
CrawlJobBoards(jobs, progress_file) ==
    /\ trawler.pc = "idle"
    /\ trawler' = [trawler EXCEPT
           !.pc = "loop",
           !.all_jobs = jobs,
           !.relevant_jobs = << >>,
           !.processed = << >>,
           !.alerts = << >>,
           !.progress_file = progress_file,
           !.events = UpdateProgress(progress_file,
                          UpdateProgress(progress_file,
                              UpdateProgress(progress_file, << >>, "starting"),
                              "crawling"),
                          "matching")]
    /\ UNCHANGED <<cv_skills, skill_order, cv_keywords, call, frame, result, ref, threads,
                   web, alert_system>>

\* one iteration of the loop, lines 2886-2958
ProcessJob ==
    /\ trawler.pc = "loop"
    /\ trawler.all_jobs # << >>
    /\ LET job    == Head(trawler.all_jobs)
           job_id == JobId(job)
       IN  IF job_id \in trawler.seen_jobs
           THEN trawler' = [trawler EXCEPT
                    !.all_jobs = Tail(trawler.all_jobs),
                    !.events = UpdateProgress(trawler.progress_file, @, "matching"),
                    !.processed = Append(@, [ job_id |-> job_id, seen |-> TRUE,
                                              scored |-> FALSE, score |-> 0,
                                              filtered |-> FALSE, relevant |-> FALSE,
                                              job |-> job, detailed |-> job,
                                              experience |-> 0 ])]
           ELSE \E detailed \in Details(job, ConfigGet(trawler.config, "matching",
                                                       "skip_job_details", FALSE)) :
                    \E outcome \in {Outcomes[matcher, trawler.config, detailed]} :
                        trawler' = [trawler EXCEPT
                            !.all_jobs = Tail(trawler.all_jobs),
                            !.relevant_jobs = IF outcome.relevant
                                              THEN Append(@, outcome.job) ELSE @,
                            !.seen_jobs = AddSeen(@, job_id, outcome.relevant),
                            !.events = UpdateProgress(trawler.progress_file, @,
                                                      "matching"),
                            !.placed = IF outcome.relevant THEN @ \cup {job_id} ELSE @,
                            !.processed = Append(@, [ job_id |-> job_id, seen |-> FALSE,
                                                      scored |-> TRUE,
                                                      score |-> outcome.score,
                                                      filtered |-> outcome.filtered,
                                                      relevant |-> outcome.relevant,
                                                      job |-> job,
                                                      detailed |-> detailed,
                                                      experience |-> outcome.experience ])]
    /\ UNCHANGED <<cv_skills, skill_order, cv_keywords, call, frame, result, ref, threads,
                   web, alert_system>>

\* a faulty version: the stage 'complete' is written before seen_jobs.json
SendAlertsComplete ==
    /\ trawler.pc = "loop"
    /\ trawler.all_jobs = << >>
    /\ trawler' = [trawler EXCEPT
           !.pc = "save",
           !.events = UpdateProgress(trawler.progress_file, @, "complete"),
           !.alerts = trawler.relevant_jobs,
           !.alerted = @ \cup {JobId(trawler.relevant_jobs[i]) :
                                  i \in 1..Len(trawler.relevant_jobs)}]
    /\ UNCHANGED <<cv_skills, skill_order, cv_keywords, call, frame, result, ref, threads,
                   web, alert_system>>

\* lines 2959-2964: the stage 'finishing', then send_alerts(relevant_jobs)
\* unless the list is empty
SendAlerts ==
    /\ trawler.pc = "loop"
    /\ trawler.all_jobs = << >>
    /\ trawler' = [trawler EXCEPT
           !.pc = "save",
           !.events = UpdateProgress(trawler.progress_file, @, "finishing"),
           !.alerts = trawler.relevant_jobs,
           !.alerted = @ \cup {JobId(trawler.relevant_jobs[i]) :
                                  i \in 1..Len(trawler.relevant_jobs)}]
    /\ UNCHANGED <<cv_skills, skill_order, cv_keywords, call, frame, result, ref, threads,
                   web, alert_system>>

\* lines 2967-2972: _save_seen_jobs(), and process_jobs returns
SaveSeenJobs ==
    /\ trawler.pc = "save"
    /\ trawler' = [trawler EXCEPT
           !.pc = "idle",
           !.file = [exists |-> TRUE, ids |-> trawler.seen_jobs],
           !.skipped.jobs =
               IF trawler.skipped.noted
               THEN @ \cup {trawler.processed[i].job :
                               i \in {k \in 1..Len(trawler.processed) :
                                         /\ trawler.processed[k].scored
                                         /\ ~trawler.processed[k].relevant}}
               ELSE @,
           !.events = UpdateProgress(trawler.progress_file, Append(@, "saved"),
                                     "complete"),
           !.relevant_jobs = << >>,
           !.processed = << >>,
           !.alerts = << >>]
    /\ UNCHANGED <<cv_skills, skill_order, cv_keywords, call, frame, result, ref, threads,
                   web, alert_system>>

NextTrawler ==
    \/ JobTrawlerInit
    \/ \E jobs \in CrawlLists, progress_file \in BOOLEAN :
           CrawlJobBoards(jobs, progress_file)
    \/ ProcessJob
    \/ SendAlerts
    \/ SaveSeenJobs

SpecTrawler == InitTrawler /\ [][NextTrawler]_vars

\* the trawler of a CV without keywords, with the skipped postings noted
InitSkipped ==
    /\ \E skills \in PostingSkillLists : JobMatcherInit(skills, {})
    /\ call = NoCall
    /\ frame = NoFrame
    /\ result = NoResult
    /\ ref = NoRef
    /\ threads = NoThreads
    /\ web = NoWeb
    /\ alert_system = NoAlertSystem
    /\ \E config \in Configs :
           trawler = [NewTrawler(config) EXCEPT !.skipped.noted = TRUE]

SpecSkipped == InitSkipped /\ [][NextTrawler]_vars


(***************************************************************************)
(* AlertSystem (src/alert_system.py): send_alerts and the alerts file      *)
(*                                                                         *)
(* alert_system holds file_enabled and the alerts file (job_alerts.json):  *)
(* absent, a JSON list of entries, or something json.load or list.extend   *)
(* fails on ("other").  The history is kept with them: initial is the file *)
(* before the first call, calls the job lists of the send_alerts calls in  *)
(* order, writes the number of times the file was written.                 *)
(***************************************************************************)
MaxCalls == 3

AlertJobs == {
    [ source |-> <<"i","n","d","e","e","d">>, title |-> <<"S","Q","L"," ","D","e","v","e","l","o","p","e","r">>, company |-> <<"A","c","m","e">> ],
    [ source |-> <<"r","e","e","d">>, title |-> <<"P","y","t","h","o","n"," ","D","e","v","e","l","o","p","e","r">>, company |-> <<"I","n","i","t","e","c","h">> ] }

\* the job lists send_alerts is given: none, one, two, the same twice
AlertJobLists ==
    { << >> } \cup {<<job>> : job \in AlertJobs}
    \cup {<<job, other>> : job \in AlertJobs, other \in AlertJobs}

AbsentFile == [kind |-> "absent", entries |-> << >>]
ListFile(entries) == [kind |-> "list", entries |-> entries]
OtherFile == [kind |-> "other", entries |-> << >>]

\* the alerts file before the first call
AlertFiles ==
    {AbsentFile, ListFile(<< >>), OtherFile}
    \cup {ListFile(<<job>>) : job \in AlertJobs}

\* AlertSystem.__init__
InitAlerts ==
    /\ cv_skills = {}
    /\ skill_order = << >>
    /\ cv_keywords = {}
    /\ call = NoCall
    /\ frame = NoFrame
    /\ result = NoResult
    /\ ref = NoRef
    /\ threads = NoThreads
    /\ trawler = NoTrawler
    /\ web = NoWeb
    /\ \E file_enabled \in BOOLEAN, file \in AlertFiles :
           alert_system = [ file_enabled |-> file_enabled,
                            file         |-> file,
                            initial      |-> file,
                            calls        |-> << >>,
                            writes       |-> 0 ]

\* a faulty save: the file is written with the new jobs only
save_to_file_replacing(self, jobs) ==
    IF ~self.file_enabled THEN self
    ELSE IF self.file.kind = "other" THEN self
    ELSE [self EXCEPT !.file = ListFile(jobs), !.writes = @ + 1]

\* _save_to_file: the alert system after the call
save_to_file(self, jobs) ==
    IF ~self.file_enabled THEN self
    ELSE IF self.file.kind = "other" THEN self
    ELSE LET all_alerts == IF self.file.kind = "absent" THEN << >>
                           ELSE self.file.entries
         IN  [self EXCEPT !.file = ListFile(all_alerts \o jobs), !.writes = @ + 1]

\* send_alerts: console and email leave the file alone
send_alerts(self, jobs) ==
    IF jobs = << >> THEN self ELSE save_to_file(self, jobs)

SendAlertsCall(jobs) ==
    /\ Len(alert_system.calls) < MaxCalls
    /\ alert_system' = [send_alerts(alert_system, jobs) EXCEPT
                            !.calls = Append(@, jobs)]
    /\ UNCHANGED <<cv_skills, skill_order, cv_keywords, call, frame, result, ref,
                   threads, trawler, web>>

NextAlerts == \E jobs \in AlertJobLists : SendAlertsCall(jobs)

SpecAlerts == InitAlerts /\ [][NextAlerts]_vars

(***************************************************************************)
(* web_app (src/web_app.py): start_trawler, run_trawler and /api/progress  *)
(*                                                                         *)
(* web holds the global trawler_running, the stage in trawler_progress.json*)
(* (progress, "absent" without the file), the requests that Flask serves   *)
(* in threads of their own, each with its position in its handler, its     *)
(* locals and the response it is about to send, and the trawler threads    *)
(* that start_trawler has started, in the order of their start.  A 'with trawler_lock:' block *)
(* is one step; between the steps of a request or a thread the others may  *)
(* take theirs.                                                            *)
(***************************************************************************)
MaxStarts == 2

Requests == {"r1", "r2"}

\* the requests that ask for /api/progress
Pollers == {"r1"}

\* the stages process_jobs writes to the progress file, in its order
Stages == <<"starting", "crawling", "matching", "finishing", "complete">>

NoResponse ==
    [ kind |-> "none", success |-> FALSE, message |-> "", running |-> FALSE,
      stage |-> "", alive |-> FALSE ]

IdleRequest == [pc |-> "idle", is_running |-> FALSE, response |-> NoResponse]

\* a thread that Thread.start() has just started
NewThread == [pc |-> "new", stage |-> 0, raised |-> FALSE]

\* the trawler threads that have been started and have not terminated
Alive == {i \in 1..Len(web.threads) : web.threads[i].pc # "done"}

\* the requests inside start_trawler
Starting == {r \in Requests : web.requests[r].pc \in {"clear", "create", "spawn"}}

\* the module is loaded; trawler_progress.json may be left from an earlier
\* life of the server
InitWeb ==
    /\ cv_skills = {}
    /\ skill_order = << >>
    /\ cv_keywords = {}
    /\ call = NoCall
    /\ frame = NoFrame
    /\ result = NoResult
    /\ ref = NoRef
    /\ threads = NoThreads
    /\ trawler = NoTrawler
    /\ alert_system = NoAlertSystem
    /\ \E progress \in {"absent", "complete"} :
           web = [ trawler_running |-> FALSE,
                   progress        |-> progress,
                   requests        |-> [r \in Requests |-> IdleRequest],
                   threads         |-> << >> ]

\* the step of request r: its record becomes next, the rest of web changes
\* as given
Step(r, next, changed) ==
    /\ web' = [changed EXCEPT !.requests[r] = next]
    /\ UNCHANGED <<cv_skills, skill_order, cv_keywords, call, frame, result, ref,
                   threads, trawler, alert_system>>

\* the handler of r returns its response
Respond(r, response, changed) ==
    Step(r, [IdleRequest EXCEPT !.pc = "return", !.response = response], changed)

\* the response of r is sent
Return(r) ==
    /\ web.requests[r].pc = "return"
    /\ Step(r, IdleRequest, web)

\* the step of trawler thread i
ThreadStep(i, next, changed) ==
    /\ web' = [changed EXCEPT !.threads[i] = next]
    /\ UNCHANGED <<cv_skills, skill_order, cv_keywords, call, frame, result, ref,
                   threads, trawler, alert_system>>

\* what start_trawler returns
Started(success, message) ==
    [NoResponse EXCEPT !.kind = "start", !.success = success, !.message = message]

\* /search-positions calls start_trawler, with or without keywords to use;
\* lines 522-543: the check of trawler_running under the lock, then the
\* keywords
StartTrawlerCheck(r, keywords) ==
    /\ web.requests[r].pc = "idle"
    /\ Len(web.threads) + Cardinality(Starting) < MaxStarts
    /\ IF web.trawler_running
       THEN Respond(r, Started(FALSE, "Trawler is already running"), web)
       ELSE IF ~keywords
       THEN Respond(r, Started(FALSE, "No keywords provided"), web)
       ELSE Step(r, [web.requests[r] EXCEPT !.pc = "clear"], web)

\* lines 551-553: the old progress file is removed
StartTrawlerClear(r) ==
    /\ web.requests[r].pc = "clear"
    /\ Step(r, [web.requests[r] EXCEPT !.pc = "create"],
            [web EXCEPT !.progress = "absent"])

\* lines 555-571: the initial progress file, unless it cannot be written
StartTrawlerCreate(r) ==
    /\ web.requests[r].pc = "create"
    /\ \E written \in BOOLEAN :
           Step(r, [web.requests[r] EXCEPT !.pc = "spawn"],
                [web EXCEPT !.progress = IF written THEN "starting" ELSE @])

\* lines 614-618: the thread is started and start_trawler returns
StartTrawlerSpawn(r) ==
    /\ web.requests[r].pc = "spawn"
    /\ Respond(r, Started(TRUE, "Trawler started successfully"),
               [web EXCEPT !.threads = Append(@, NewThread)])

\* a faulty start of run_trawler: the flag is not set
RunTrawlerBeginUnset(i) ==
    /\ i <= Len(web.threads)
    /\ web.threads[i].pc = "new"
    /\ ThreadStep(i, [web.threads[i] EXCEPT !.pc = "construct"], web)

\* run_trawler, lines 576-577: trawler_running = True under the lock
RunTrawlerBegin(i) ==
    /\ i <= Len(web.threads)
    /\ web.threads[i].pc = "new"
    /\ ThreadStep(i, [web.threads[i] EXCEPT !.pc = "construct"],
                  [web EXCEPT !.trawler_running = TRUE])

\* line 594: JobTrawler() returns
RunTrawlerConstruct(i) ==
    /\ i <= Len(web.threads)
    /\ web.threads[i].pc = "construct"
    /\ ThreadStep(i, [web.threads[i] EXCEPT !.pc = "process"], web)

\* line 599: process_jobs writes its next stage to the progress file
RunTrawlerProgress(i) ==
    /\ i <= Len(web.threads)
    /\ web.threads[i].pc = "process"
    /\ web.threads[i].stage < Len(Stages)
    /\ ThreadStep(i, [web.threads[i] EXCEPT !.stage = @ + 1],
                  [web EXCEPT !.progress = Stages[web.threads[i].stage + 1]])

\* lines 599-605: process_jobs returns after 'complete'
RunTrawlerReturn(i) ==
    /\ i <= Len(web.threads)
    /\ web.threads[i].pc = "process"
    /\ web.threads[i].stage = Len(Stages)
    /\ ThreadStep(i, [web.threads[i] EXCEPT !.pc = "finally"], web)

\* lines 606-609: JobTrawler() or process_jobs raises
RunTrawlerRaise(i) ==
    /\ i <= Len(web.threads)
    /\ web.threads[i].pc \in {"construct", "process"}
    /\ ThreadStep(i, [web.threads[i] EXCEPT !.pc = "finally", !.raised = TRUE], web)

\* a faulty end of run_trawler: the flag is left as it is
RunTrawlerFinallyKeeps(i) ==
    /\ i <= Len(web.threads)
    /\ web.threads[i].pc = "finally"
    /\ ThreadStep(i, [web.threads[i] EXCEPT !.pc = "done"], web)

\* lines 610-612: trawler_running = False under the lock, and the thread ends
RunTrawlerFinally(i) ==
    /\ i <= Len(web.threads)
    /\ web.threads[i].pc = "finally"
    /\ ThreadStep(i, [web.threads[i] EXCEPT !.pc = "done"],
                  [web EXCEPT !.trawler_running = FALSE])

\* what /api/progress returns
Progress(running, stage) ==
    [NoResponse EXCEPT !.kind = "progress", !.running = running, !.stage = stage,
                       !.alive = Alive # {}]

\* a request for /api/progress arrives; lines 723-725: is_running =
\* trawler_running under the lock
ApiProgressFlag(r) ==
    /\ r \in Pollers
    /\ web.requests[r].pc = "idle"
    /\ Step(r, [web.requests[r] EXCEPT !.pc = "exists",
                                       !.is_running = web.trawler_running], web)

\* lines 727-745: os.path.exists(progress_file)
ApiProgressExists(r) ==
    /\ web.requests[r].pc = "exists"
    /\ IF web.progress = "absent"
       THEN Respond(r, Progress(web.requests[r].is_running,
                                IF web.requests[r].is_running THEN "starting"
                                ELSE "none"), web)
       ELSE Step(r, [web.requests[r] EXCEPT !.pc = "read"], web)

\* a faulty report: the stage in the file is not looked at
RunningByFlag(is_running, stage) == is_running

\* line 752
Running(is_running, stage) == is_running \/ stage # "complete"

\* the progress file is being written
Writing ==
    \/ \E i \in 1..Len(web.threads) :
           web.threads[i].pc = "process" /\ web.threads[i].stage < Len(Stages)
    \/ \E r \in Requests : web.requests[r].pc = "create"

\* lines 747-759: the file is read; the read fails when the file has been
\* removed in the meantime and may fail while the file is being written
ApiProgressRead(r) ==
    /\ web.requests[r].pc = "read"
    /\ \/ /\ web.progress # "absent"
          /\ Respond(r, Progress(Running(web.requests[r].is_running, web.progress),
                                 web.progress), web)
       \/ /\ web.progress = "absent" \/ Writing
          /\ Respond(r, Progress(FALSE, "error"), web)

\* start_trawler and the threads it starts
NextStart ==
    \/ \E r \in Requests, keywords \in BOOLEAN : StartTrawlerCheck(r, keywords)
    \/ \E r \in Requests : StartTrawlerClear(r)
    \/ \E r \in Requests : StartTrawlerCreate(r)
    \/ \E r \in Requests : StartTrawlerSpawn(r)
    \/ \E i \in 1..MaxStarts : RunTrawlerBegin(i)
    \/ \E i \in 1..MaxStarts : RunTrawlerConstruct(i)
    \/ \E i \in 1..MaxStarts : RunTrawlerProgress(i)
    \/ \E i \in 1..MaxStarts : RunTrawlerReturn(i)
    \/ \E i \in 1..MaxStarts : RunTrawlerRaise(i)
    \/ \E i \in 1..MaxStarts : RunTrawlerFinally(i)
    \/ \E r \in Requests : Return(r)

NextWeb ==
    \/ NextStart
    \/ \E r \in Pollers : ApiProgressFlag(r)
    \/ \E r \in Pollers : ApiProgressExists(r)
    \/ \E r \in Pollers : ApiProgressRead(r)

SpecWeb == InitWeb /\ [][NextWeb]_vars

\* a thread that has reached its finally block runs it: the lock is never
\* held for longer than one assignment
SpecWebFair ==
    /\ InitWeb
    /\ [][NextStart]_vars
    /\ \A i \in 1..MaxStarts : WF_vars(RunTrawlerFinally(i))
(***************************************************************************)
(* What the properties read of a posting, computed once                    *)
(***************************************************************************)
ExperiencePhrase == <<"5"," ","y","e","a","r","s"," ","o","f"," ","e","x","p","e","r","i","e","n","c","e"," ","r","e","q","u","i","r","e","d">>

Terms ==
    {Lower(skill) : skill \in Range(CvSkillList)}
    \cup {Lower(kw) : kw \in Range(CvKeywordList)}
    \cup {ExperiencePhrase}

\* term in job_text, for the text of each posting
Occurs == [term \in Terms, job \in Jobs |-> Contains(term, extract_job_text(job))]

\* the years the text of each posting requires
RequiredYearsOf == [job \in Jobs |-> RequiredYears(extract_job_text(job))]

\* the number of matched skills that are high-value skills
HighValueCount(matched_skills) ==
    Cardinality({i \in 1..Len(matched_skills) : matched_skills[i] \in high_value_skills})

(***************************************************************************)
(* C1: for every profile and posting, the score match_job returns is at    *)
(* least 0.0 and at most 1.0, also after the 0.20 floor and the +0.10      *)
(* extra boost.                                                            *)
(***************************************************************************)
C1_ScoreInUnitInterval ==
    called => result.score >= 0 /\ result.score <= 1000

\* the boost applied to a sum that was cut at 1.0
C1_Witness ==
    /\ called
    /\ frame.title_bonus > 200
    /\ Len(result.matched_skills) >= 2
    /\ frame.base_score + frame.title_bonus + frame.any_match_bonus
         + frame.skill_count_bonus > 1000
    /\ result.score = 1000

(***************************************************************************)
(* C2: for skills {python}, no keywords, 0 years and the posting titled    *)
(* 'Python Developer' with nothing else in it, match_job returns           *)
(* matchedSkills = [python], with skillScore 0.35, titleBonus 0.10,        *)
(* anyMatchBonus 0.15 and skillCountBonus 0; the final score is 0.61: the  *)
(* posting states no requirement, so experienceScore is 1.0 and the base   *)
(* score is 0.21 + 0.15.                                                   *)
(***************************************************************************)
C2_Case ==
    /\ called
    /\ cv_skills = {<<"p","y","t","h","o","n">>}
    /\ cv_keywords = {}
    /\ call.cv_years = 0
    /\ call.job = [ title |-> <<"P","y","t","h","o","n"," ","D","e","v","e","l","o","p","e","r">>, company |-> << >>,
                    snippet |-> << >>, full_description |-> << >> ]

C2_Signals ==
    /\ result.matched_skills = <<<<"p","y","t","h","o","n">>>>
    /\ frame.skill_score = 350
    /\ frame.title_bonus = 100
    /\ frame.any_match_bonus = 150
    /\ frame.skill_count_bonus = 0

C2_PythonDeveloper == C2_Case => C2_Signals /\ result.score = 610

\* the statement with the final score of 0.46
C2_FinalScore046 == C2_Case => C2_Signals /\ result.score = 460

C2_Witness ==
    /\ C2_Case
    /\ frame.experience_score = 1000
    /\ frame.base_score = 360

(***************************************************************************)
(* C3: if a profile skill occurs verbatim in the posting text, or more     *)
(* generally if matchedSkills is non-empty or keywordScore > 0, the score  *)
(* match_job returns is at least 0.20, whatever the other signals are.     *)
(***************************************************************************)
C3_FloorGuarantee ==
    called =>
        /\ (\E skill \in cv_skills : Occurs[skill, call.job]) => result.score >= 200
        /\ Len(result.matched_skills) > 0 \/ frame.keyword_score > 0
               => result.score >= 200

\* one skill occurs verbatim and every other signal is at its lowest
C3_Witness ==
    /\ called
    /\ \E skill \in cv_skills : Occurs[skill, call.job]
    /\ Len(result.matched_skills) = 1
    /\ frame.keyword_score = 0
    /\ frame.title_bonus = 0
    /\ frame.experience_score = 300

(***************************************************************************)
(* C4: with no skills and no keywords in the profile, match_job returns    *)
(* matchedSkills = [] and score = experienceScore x 0.15 for every         *)
(* posting, 0.15 when the posting states no requirement; no bonus, floor   *)
(* or boost is applied.                                                    *)
(***************************************************************************)
C4_EmptyProfile ==
    called /\ cv_skills = {} /\ cv_keywords = {} =>
        /\ result.matched_skills = << >>
        /\ result.score * 1000 = frame.experience_score * 150
        /\ RequiredYearsOf[call.job] = 0 => result.score = 150
        /\ frame.title_bonus = 0
        /\ frame.any_match_bonus = 0
        /\ frame.skill_count_bonus = 0

\* an empty profile and a requirement the candidate is far from: 0.045
C4_Witness ==
    /\ called
    /\ cv_skills = {}
    /\ cv_keywords = {}
    /\ RequiredYearsOf[call.job] > 0
    /\ frame.experience_score = 300
    /\ result.score = 45

(***************************************************************************)
(* C5: for matched skills M and M' with M a subset of M', the skillScore   *)
(* of M' is at least the skillScore of M.  M' is the list a call of        *)
(* _calculate_skill_match matched, M any part of it.                       *)
(***************************************************************************)
C5_SkillScoreMonotone ==
    called =>
        \A I \in SUBSET (1..Len(result.matched_skills)) :
            SkillScore(Pick(result.matched_skills, I)) <= result.score

\* both steps of the staircase and both sides of the high-value bonus
C5_Witness ==
    /\ called
    /\ Len(result.matched_skills) >= 6
    /\ HighValueCount(result.matched_skills) >= 3
    /\ HighValueCount(result.matched_skills) < Len(result.matched_skills)

C7_Combined(skillScore, keywordScore, experienceScore, titleBonus, n) ==
    LET base == (600 * skillScore + 200 * keywordScore + 150 * experienceScore) \div 1000
        anyMatchBonus == IF n > 0 \/ keywordScore > 0 THEN 150 ELSE 0
        skillCountBonus == IF n >= 5 THEN 200
                           ELSE IF n >= 3 THEN 150
                           ELSE IF n >= 2 THEN 100
                           ELSE 0
        s1 == Min(1000, base + titleBonus + anyMatchBonus + skillCountBonus)
        s2 == IF n > 0 \/ keywordScore > 0 THEN Max(s1, 200) ELSE s1
    IN  IF titleBonus > 200 /\ n >= 2 THEN Min(1000, s2 + 100) ELSE s2

C7_ScoreCombination ==
    called =>
        result.score = C7_Combined(frame.skill_score, frame.keyword_score,
                                   frame.experience_score, frame.title_bonus,
                                   Len(result.matched_skills))

\* two matched skills, a keyword, a title bonus above 0.20: a sum below 1.0
\* that the boost takes to 1.0
C7_Witness ==
    /\ called
    /\ Len(result.matched_skills) = 2
    /\ frame.keyword_score > 0
    /\ frame.title_bonus > 200
    /\ frame.experience_score < 1000
    /\ frame.base_score + frame.title_bonus + frame.any_match_bonus
         + frame.skill_count_bonus < 1000
    /\ result.score = 1000

(***************************************************************************)
(* C8: with n matched skills, h of them high-value, skillScore =           *)
(* min(1.0, step(n) + min(0.15, 0.05*h)), where step(0) = 0,               *)
(* step(1) = 0.30, step(2) = 0.50, step(3) = 0.65 and step(n) = 0.75 +     *)
(* min(0.20, 0.05*(n-4)) for n >= 4; the staircase never exceeds 0.95 and  *)
(* skillScore is 0 exactly when n = 0.                                     *)
(***************************************************************************)
C8_Step(n) ==
    IF n = 0 THEN 0
    ELSE IF n = 1 THEN 300
    ELSE IF n = 2 THEN 500
    ELSE IF n = 3 THEN 650
    ELSE 750 + Min(200, 50 * (n - 4))

C8_SkillSignal ==
    called =>
        LET n == Len(result.matched_skills)
            h == HighValueCount(result.matched_skills)
        IN  /\ result.score = Min(1000, C8_Step(n) + Min(150, 50 * h))
            /\ C8_Step(n) <= 950
            /\ result.score = 0 <=> n = 0

\* more matched skills than the staircase counts, none of them high-value
C8_Witness ==
    /\ called
    /\ Len(result.matched_skills) >= 9
    /\ HighValueCount(result.matched_skills) = 0
    /\ result.score = 950

(***************************************************************************)
(* C9: with c the number of profile keywords that are plain substrings of  *)
(* the lower-cased posting text (no fuzzy match, no synonym),              *)
(* keywordScore is 0 for c = 0, 0.30 for c = 1, 0.50 for c = 2 and         *)
(* 0.70 + min(0.20, 0.05*(c-3)) for c >= 3; it is 0 for an empty keyword   *)
(* set and never exceeds 0.90.                                             *)
(***************************************************************************)
C9_Step(c) ==
    IF c = 0 THEN 0
    ELSE IF c = 1 THEN 300
    ELSE IF c = 2 THEN 500
    ELSE 700 + Min(200, 50 * (c - 3))

C9_KeywordSignal ==
    called =>
        LET c == Cardinality({kw \in cv_keywords : Occurs[kw, call.job]})
        IN  /\ frame.keyword_score = C9_Step(c)
            /\ cv_keywords = {} => frame.keyword_score = 0
            /\ frame.keyword_score <= 900

\* a keyword the fuzzy matcher would find in a text it is no substring of
C9_Witness ==
    /\ called
    /\ \E kw \in cv_keywords :
           /\ ~Occurs[kw, call.job]
           /\ fuzzy_match_skill(kw, extract_job_text(call.job))
    /\ frame.keyword_score = 500

(***************************************************************************)
(* C10: with R the years the posting requires and Y the candidate's years, *)
(* experienceScore is 1.0 if R = 0 or Y >= R, 0.7 if Y < R and             *)
(* Y >= 0.7*R, and 0.3 otherwise; a posting whose text contains '5 years   *)
(* of experience required' gives 0.3 with Y = 2.                           *)
(***************************************************************************)
C10_ExperienceGating ==
    called =>
        LET R == RequiredYearsOf[call.job]
            Y == call.cv_years
        IN  /\ frame.experience_score =
                   IF R = 0 \/ Y >= R THEN 1000
                   ELSE IF 10 * Y >= 7 * R THEN 700
                   ELSE 300
            /\ Occurs[ExperiencePhrase, call.job] /\ Y = 2
                   => frame.experience_score = 300

C10_Witness ==
    /\ called
    /\ Occurs[ExperiencePhrase, call.job]
    /\ RequiredYearsOf[call.job] = 5
    /\ call.cv_years = 2
    /\ frame.experience_score = 300

(***************************************************************************)
(* What the properties read of the postings of SpecPostings, computed once *)
(***************************************************************************)
\* term in job.get('title', '').lower()
TitleHas ==
    [term \in AllSkills \cup AllKeywords, job \in Postings |->
        Contains(term, Lower(Get(job, "title")))]

\* the two postings have the same fields with the same values, but for the
\* company
DifferInCompanyOnly(a, b) ==
    /\ DOMAIN a = DOMAIN b
    /\ \A key \in DOMAIN a \ {"company"} : a[key] = b[key]

(***************************************************************************)
(* C11: the experience signal reads the title, the snippet and the full    *)
(* description only: two postings that differ only in their company get    *)
(* the same experienceScore.                                               *)
(***************************************************************************)
C11_CompanyNotRead ==
    called =>
        \A job \in Postings :
            DifferInCompanyOnly(job, call.job) =>
                MatchPostingResults[matcher, job, call.cv_years].experience_score
                    = frame.experience_score

(***************************************************************************)
(* C12: with s the number of profile skills and k the number of profile    *)
(* keywords that are substrings of the lower-cased title, titleBonus =     *)
(* min(0.30, 0.10*s) + min(0.20, 0.08*k), with no further clamp, so at     *)
(* most 0.50; it is 0 when the title is empty or missing.                  *)
(***************************************************************************)
C12_TitleBonus ==
    called =>
        LET s == Cardinality({skill \in cv_skills : TitleHas[skill, call.job]})
            k == Cardinality({kw \in cv_keywords : TitleHas[kw, call.job]})
        IN  /\ frame.title_bonus = Min(300, 100 * s) + Min(200, 80 * k)
            /\ frame.title_bonus <= 500
            /\ ("title" \notin DOMAIN call.job \/ call.job.title = << >>)
                   => frame.title_bonus = 0

\* more skills and keywords in the title than either part counts
C12_Witness ==
    /\ called
    /\ Cardinality({skill \in cv_skills : TitleHas[skill, call.job]}) > 3
    /\ Cardinality({kw \in cv_keywords : TitleHas[kw, call.job]}) > 2
    /\ frame.title_bonus = 500

(***************************************************************************)
(* C13: for each pair (a -> b) of the synonym table, the fuzzy matcher     *)
(* reports a present in any text that contains b, and b present in any     *)
(* text that contains a; so 'k8s' is present in a text containing          *)
(* 'kubernetes' and 'kubernetes' in a text containing 'k8s'.               *)
(***************************************************************************)
C13_SynonymsBothWays ==
    called =>
        /\ \A e \in 1..Len(variations) :
               LET a == variations[e][1]
                   b == variations[e][2]
               IN  /\ call.skill = a /\ Contains(b, call.job_text) => result.present
                   /\ call.skill = b /\ Contains(a, call.job_text) => result.present
        /\ call.skill = <<"k","8","s">> /\ Contains(<<"k","u","b","e","r","n","e","t","e","s">>, call.job_text)
               => result.present
        /\ call.skill = <<"k","u","b","e","r","n","e","t","e","s">> /\ Contains(<<"k","8","s">>, call.job_text)
               => result.present

\* a value found through its key, which is not a key itself: 'javascript'
\* in a text that holds 'js' and nothing like 'javascript'
C13_Witness ==
    /\ called
    /\ call.skill = <<"j","a","v","a","s","c","r","i","p","t">>
    /\ call.job_text = <<"o","u","r"," ","t","e","a","m"," ","u","s","e","s"," ","j","s"," ","d","a","i","l","y">>
    /\ result.present

(***************************************************************************)
(* C14: the fuzzy matcher returns true for (term, haystack) exactly when   *)
(* one of these holds: (1) term is a synonym key whose value is a          *)
(* substring of haystack; (2) term is the value of a synonym entry whose   *)
(* key is a substring of haystack; (3) term has two or more words and      *)
(* every word is a substring of haystack; (4/5) term is a substring of     *)
(* haystack; (6) some whitespace-delimited token of haystack has           *)
(* similarity >= 0.75 to term; (7) some token t with len(t) >= 3 and       *)
(* len(term) >= 3 has term in t or t in term.                              *)
(***************************************************************************)
C14_Present(term, haystack) ==
    LET tokens == Split(haystack)
        words  == Split(term)
    IN  \/ \E e \in 1..Len(variations) :
               term = variations[e][1] /\ Contains(variations[e][2], haystack)
        \/ \E e \in 1..Len(variations) :
               term = variations[e][2] /\ Contains(variations[e][1], haystack)
        \/ Len(words) >= 2 /\ \A w \in 1..Len(words) : Contains(words[w], haystack)
        \/ Contains(term, haystack)
        \/ \E t \in 1..Len(tokens) : RatioAtLeast(term, tokens[t], 750)
        \/ \E t \in 1..Len(tokens) :
               /\ Len(tokens[t]) >= 3
               /\ Len(term) >= 3
               /\ Contains(term, tokens[t]) \/ Contains(tokens[t], term)

C14_FuzzyMatcher ==
    called => (result.present <=> C14_Present(call.skill, call.job_text))

\* a token of the text inside the term and nothing else: condition (7) alone
C14_Witness ==
    /\ called
    /\ call.skill = <<"k","u","b","e","r","n","e","t","e","s">>
    /\ call.job_text = <<"k","u","b","e"," ","c","l","u","s","t","e","r">>
    /\ result.present

(***************************************************************************)
(* C15: match_job has no side effects on its inputs: after any sequence of *)
(* match_job calls, also interleaved calls of several threads on the same  *)
(* JobMatcher, the matcher's skills and keywords are what they were after  *)
(* construction and the posting passed in is unchanged.                    *)
(***************************************************************************)
C15_InputsUnchanged ==
    [][/\ cv_skills' = cv_skills
       /\ skill_order' = skill_order
       /\ cv_keywords' = cv_keywords
       /\ \A t \in Threads :
              threads'[t].pc # "idle" => threads'[t].job = threads'[t].arg]_vars

\* one thread has returned from a posting that matched skills while the other
\* is in the middle of its call for another posting
C15_Witness ==
    /\ threads # NoThreads
    /\ threads["t1"].pc = "done"
    /\ Len(threads["t1"].matched_skills) > 0
    /\ threads["t2"].pc = "bonuses"
    /\ threads["t2"].arg # threads["t1"].arg

(***************************************************************************)
(* Letter case: str.upper() of the strings of the model                     *)
(***************************************************************************)
LowerToUpper ==
    [c \in LowerLetters |-> CHOOSE u \in DOMAIN UpperToLower : UpperToLower[u] = c]

RECURSIVE Upper(_)
Upper(s) ==
    IF s = << >> THEN << >>
    ELSE (IF Head(s) \in LowerLetters THEN <<LowerToUpper[Head(s)]>>
          ELSE IF Head(s) = "ß" THEN <<"S", "S">>
          ELSE <<Head(s)>>) \o Upper(Tail(s))

\* two strings, sets of strings or postings that differ in letter case only
SameButCase(a, b) == Upper(a) = Upper(b)
SameTermsButCase(A, B) == {Upper(a) : a \in A} = {Upper(b) : b \in B}
SamePostingButCase(a, b) ==
    /\ DOMAIN a = DOMAIN b
    /\ \A key \in DOMAIN a : SameButCase(a[key], b[key])

(***************************************************************************)
(* C16: case insensitivity: changing the letter case of characters of the  *)
(* posting's title, company, snippet or full description, or of the skills *)
(* or keywords given to the constructor, changes neither the score nor the *)
(* matched skills that match_job returns.                                  *)
(***************************************************************************)
C16_CaseInsensitive ==
    called =>
        \A skills \in PostingSkillLists, keywords \in PostingKeywordSets, job \in Postings :
            ( /\ SameTermsButCase(Range(skills), cv_skills)
              /\ SameTermsButCase(keywords, cv_keywords)
              /\ SamePostingButCase(job, call.job) )
            => LET other == MatchPostingResults[Matcher(skills, keywords), job, call.cv_years]
               IN  /\ other.match_score = result.score
                   /\ Range(other.matched_skills) = Range(result.matched_skills)

(***************************************************************************)
(* C17: the matched skills returned by match_job are skills of the profile *)
(* in lower case, each at most once, and a skill of the profile is among   *)
(* them exactly when it is a substring of the posting's text or the fuzzy  *)
(* matcher reports it present.                                             *)
(***************************************************************************)
C17_MatchedSkills ==
    called =>
        LET matched  == result.matched_skills
            job_text == extract_job_text(call.job)
        IN  /\ Range(matched) \subseteq cv_skills
            /\ \A skill \in cv_skills : skill = Lower(skill)
            /\ \A i, j \in 1..Len(matched) : matched[i] = matched[j] => i = j
            /\ \A skill \in cv_skills :
                   skill \in Range(matched)
                       <=> (Contains(skill, job_text) \/ fuzzy_match_skill(skill, job_text))

\* a skill found as a substring, a skill only the fuzzy matcher finds and a
\* skill that is not found
C17_Witness ==
    /\ called
    /\ LET matched  == result.matched_skills
           job_text == extract_job_text(call.job)
       IN  /\ \E skill \in Range(matched) : Contains(skill, job_text)
           /\ \E skill \in Range(matched) : ~Contains(skill, job_text)
           /\ \E skill \in cv_skills : skill \notin Range(matched)

(***************************************************************************)
(* C18: totality on missing fields: for a posting that lacks snippet, full *)
(* description, company or title, match_job returns a result, and it is    *)
(* the result for the same posting with those fields present and empty.    *)
(***************************************************************************)
Fields == {"title", "company", "snippet", "full_description"}

\* the posting with every absent field present and empty
Filled(job) == [key \in Fields |-> IF key \in DOMAIN job THEN job[key] ELSE << >>]

C18_MissingFields ==
    (called /\ DOMAIN call.job # Fields) =>
        /\ Filled(call.job) \in Postings
        /\ LET filled == MatchPostingResults[matcher, Filled(call.job), call.cv_years]
           IN  result = [score          |-> filled.match_score,
                         matched_skills |-> filled.matched_skills]

\* a posting without title and full description whose snippet matches skills
C18_Witness ==
    /\ called
    /\ DOMAIN call.job = {"company", "snippet"}
    /\ Len(result.matched_skills) > 0
    /\ result.score > 150

(***************************************************************************)
(* C19: deduplication against seen postings: over the runs of process_jobs *)
(* that share seen_jobs.json, a job identifier is put in relevant_jobs and *)
(* alerted at most once, and a job whose identifier is in seen_jobs is     *)
(* skipped: it is neither scored nor alerted.                              *)
(***************************************************************************)
Ids(jobs) == {JobId(jobs[i]) : i \in 1..Len(jobs)}
NoIdTwice(jobs) == \A i, j \in 1..Len(jobs) : JobId(jobs[i]) = JobId(jobs[j]) => i = j

ConfiguredMinScore ==
    IF "matching" \in DOMAIN trawler.config
       /\ "min_score" \in DOMAIN trawler.config["matching"]
    THEN trawler.config["matching"]["min_score"]
    ELSE 500

C20_ThresholdGating ==
    (trawler # NoTrawler /\ trawler.pc = "save") =>
        /\ \A i \in 1..Len(trawler.alerts) :
               trawler.alerts[i]["match_score"] >= ConfiguredMinScore
        /\ \A i \in 1..Len(trawler.processed) :
               LET done == trawler.processed[i]
               IN  (~done.seen /\ ~done.filtered /\ done.score >= ConfiguredMinScore)
                       => \E k \in 1..Len(trawler.alerts) :
                              /\ JobId(trawler.alerts[k]) = done.job_id
                              /\ trawler.alerts[k]["match_score"] = done.score

\* a run that alerted a job whose score is the threshold and left out a job
\* whose score is below it
C20_Witness ==
    /\ trawler # NoTrawler
    /\ trawler.pc = "save"
    /\ \E k \in 1..Len(trawler.alerts) :
           trawler.alerts[k]["match_score"] = ConfiguredMinScore
    /\ \E i \in 1..Len(trawler.processed) :
           /\ trawler.processed[i].scored
           /\ ~trawler.processed[i].filtered
           /\ trawler.processed[i].score < ConfiguredMinScore
           /\ trawler.processed[i].job_id \notin Ids(trawler.alerts)


(***************************************************************************)
(* C25: the minimum score of 0.20 never binds: whenever matchedSkills is   *)
(* not empty or keywordScore > 0, min(1.0, base + titleBonus +             *)
(* anyMatchBonus + skillCountBonus) is already at least 0.20.              *)
(***************************************************************************)
C25_FloorNeverBinding ==
    called =>
        LET capped == CappedSum(frame.base_score, frame.title_bonus,
                                frame.any_match_bonus, frame.skill_count_bonus)
        IN  HasAnyMatch(frame.matched_skills, frame.keyword_score) =>
                /\ capped >= 200
                /\ Floor(capped, frame.matched_skills, frame.keyword_score) = capped

\* the lowest sum of a job with a match: one keyword, an unmet requirement
C25_Witness ==
    /\ called
    /\ HasAnyMatch(frame.matched_skills, frame.keyword_score)
    /\ frame.base_score + frame.title_bonus + frame.any_match_bonus
           + frame.skill_count_bonus = 255

(***************************************************************************)
(* C26: a hit in the title is a hit in the posting: the number of profile  *)
(* skills found in the title is at most |matchedSkills| and the number of  *)
(* profile keywords found in the title is at most the number found in the  *)
(* text; so titleBonus > 0 implies anyMatchBonus = 0.15, and no title      *)
(* bonus goes to a job with no matched skill and keywordScore = 0.         *)
(***************************************************************************)
C26_TitleHitsArePostingHits ==
    called =>
        LET job_text == extract_job_text(call.job)
            s == Cardinality({skill \in cv_skills : TitleHas[skill, call.job]})
            k == Cardinality({kw \in cv_keywords : TitleHas[kw, call.job]})
        IN  /\ s <= Len(frame.matched_skills)
            /\ k <= Cardinality({kw \in cv_keywords : KeywordMatches(kw, job_text)})
            /\ frame.title_bonus > 0 => frame.any_match_bonus = 150
            /\ frame.title_bonus > 0 =>
                   (Len(frame.matched_skills) > 0 \/ frame.keyword_score > 0)

\* a skill and a keyword that the posting has in its title only
C26_Witness ==
    /\ called
    /\ frame.title_bonus > 0
    /\ \E skill \in cv_skills :
           /\ TitleHas[skill, call.job]
           /\ ~Contains(skill, extract_job_text_no_title(call.job))
    /\ \E kw \in cv_keywords :
           /\ TitleHas[kw, call.job]
           /\ ~Contains(kw, extract_job_text_no_title(call.job))

\* the identifiers of the postings of a list
ListIds(jobs) == {JobId(jobs[i]) : i \in 1..Len(jobs)}

\* the step is an iteration of the loop of process_jobs
LoopStep == trawler.pc = "loop" /\ Len(trawler'.processed) = Len(trawler.processed) + 1

\* what the iteration of the step noted
Noted == trawler'.processed[Len(trawler'.processed)]

(***************************************************************************)
(* C23: seen_jobs changes only by adding the identifier of a job at the    *)
(* moment that job is appended to relevant_jobs; it never shrinks; a job   *)
(* skipped for its score or its location is not added by that skip, and a  *)
(* crawled job is scored in every run in which its identifier is not in    *)
(* seen_jobs.                                                              *)
(***************************************************************************)
C23_SeenJobs ==
    [][ /\ trawler.seen_jobs \subseteq trawler'.seen_jobs
        /\ trawler'.seen_jobs # trawler.seen_jobs =>
               /\ LoopStep
               /\ Len(trawler'.relevant_jobs) = Len(trawler.relevant_jobs) + 1
               /\ SubSeq(trawler'.relevant_jobs, 1, Len(trawler.relevant_jobs))
                      = trawler.relevant_jobs
               /\ trawler'.seen_jobs = trawler.seen_jobs
                      \cup {JobId(trawler'.relevant_jobs[Len(trawler'.relevant_jobs)])}
               /\ JobId(Head(trawler.all_jobs))
                      = JobId(trawler'.relevant_jobs[Len(trawler'.relevant_jobs)])
        /\ (LoopStep /\ trawler'.relevant_jobs = trawler.relevant_jobs) =>
               trawler'.seen_jobs = trawler.seen_jobs
        /\ LoopStep =>
               (Noted.scored <=> JobId(Head(trawler.all_jobs)) \notin trawler.seen_jobs)
      ]_vars

\* a posting that an earlier run skipped is scored again and skipped again,
\* and its identifier stays out of seen_jobs
C23_Witness ==
    /\ trawler.file.ids # {}
    /\ trawler.pc = "loop"
    /\ trawler.processed # << >>
    /\ LET noted == trawler.processed[Len(trawler.processed)]
       IN  /\ noted.job \in trawler.skipped.jobs
           /\ noted.scored
           /\ ~noted.relevant
           /\ noted.job_id \notin trawler.seen_jobs

\* C23 as stated: a job that was skipped for its score or its location is
\* scored again in every later run in which it is crawled
C23_SkippedJobScoredAgain ==
    [][ (LoopStep /\ Head(trawler.all_jobs) \in trawler.skipped.jobs)
            => Noted.scored ]_vars

\* the postings whose location string is not empty and not recognised by
\* _is_european_location
OutsideEurope ==
    {job \in DetailedJobs :
        /\ JobLocationStr(job) # << >>
        /\ ~is_european_location(JobLocationStr(job))}

(***************************************************************************)
(* C24: a job that is not yet seen and whose location string (its location *)
(* field or, without one, the location extracted from its description) is  *)
(* not empty and not recognised by _is_european_location is added neither  *)
(* to relevant_jobs nor to seen_jobs, whatever its score.                  *)
(***************************************************************************)
C24_NonEuropeanSkipped ==
    [][ (LoopStep /\ Noted.scored /\ Noted.detailed \in OutsideEurope)
            => /\ trawler'.relevant_jobs = trawler.relevant_jobs
               /\ trawler'.seen_jobs = trawler.seen_jobs
               /\ Noted.job_id \notin trawler'.seen_jobs ]_vars

\* a posting without location field whose description names a place
\* outside Europe is skipped with a score above the threshold
C24_Witness ==
    /\ trawler.pc = "loop"
    /\ trawler.processed # << >>
    /\ LET noted == trawler.processed[Len(trawler.processed)]
       IN  /\ noted.scored
           /\ Get(noted.detailed, "location") = << >>
           /\ noted.detailed \in OutsideEurope
           /\ noted.score >= ConfiguredMinScore
           /\ ~noted.relevant
           /\ noted.job_id \notin trawler.seen_jobs
           /\ trawler.relevant_jobs = << >>

\* the years of experience each posting asks for
RequiredOf == [job \in DetailedJobs |-> RequiredYears(extract_job_text(job))]

(***************************************************************************)
(* C27: process_jobs scores with candidate years = 0, so the               *)
(* experienceScore of every scored job is 1.0 when the posting states no   *)
(* requirement (required = 0) and 0.3 when it states a requirement of one  *)
(* year or more; 0.7 never occurs.                                         *)
(***************************************************************************)
C27_ExperienceWithoutYears ==
    \A i \in 1..Len(trawler.processed) :
        LET noted    == trawler.processed[i]
            required == RequiredOf[noted.detailed]
        IN  noted.scored =>
                /\ required = 0 => noted.experience = 1000
                /\ required >= 1 => noted.experience = 300
                /\ noted.experience # 700
                /\ noted.experience
                       = TrawlerResults[matcher, Posting(noted.detailed)].experience_score

\* in one run a posting that asks for 2 years and one that asks for none
C27_Witness ==
    /\ \E i \in 1..Len(trawler.processed) :
           /\ trawler.processed[i].scored
           /\ RequiredOf[trawler.processed[i].detailed] = 2
           /\ trawler.processed[i].experience = 300
    /\ \E i \in 1..Len(trawler.processed) :
           /\ trawler.processed[i].scored
           /\ RequiredOf[trawler.processed[i].detailed] = 0
           /\ trawler.processed[i].experience = 1000

\* the position of a stage in the order of the run
StageRank(stage) ==
    CASE stage = "starting" -> 1
      [] stage = "crawling" -> 2
      [] stage = "matching" -> 3
      [] stage = "finishing" -> 4
      [] stage = "saved" -> 5
      [] stage = "complete" -> 6

(***************************************************************************)
(* C29: in one process_jobs run with a progress file the stages written    *)
(* occur in the order starting, crawling, matching, finishing, complete (a *)
(* later stage is never followed by an earlier one); 'complete' is written *)
(* only after seen_jobs has been saved and is the last progress write of   *)
(* the run.                                                                *)
(***************************************************************************)
C29_StagesInOrder ==
    [][ LET events == trawler'.events
        IN  /\ \A i, j \in 1..Len(events) :
                   i < j => StageRank(events[i]) < StageRank(events[j])
            /\ \A i \in 1..Len(events) :
                   events[i] = "complete" =>
                       /\ i = Len(events)
                       /\ i > 1 /\ events[i - 1] = "saved"
                       /\ trawler'.file = [exists |-> TRUE, ids |-> trawler'.seen_jobs]
            /\ (trawler'.progress_file /\ trawler'.pc = "idle") =>
                   events = <<"starting", "crawling", "matching", "finishing",
                              "saved", "complete">>
            /\ trawler.pc # "idle" =>
                   /\ Len(events) >= Len(trawler.events)
                   /\ SubSeq(events, 1, Len(trawler.events)) = trawler.events
      ]_vars

\* a run with a progress file that accepted a posting has written all five
\* stages, 'complete' last and after the save
C29_Witness ==
    /\ trawler.progress_file
    /\ trawler.pc = "idle"
    /\ trawler.seen_jobs # {}
    /\ trawler.file.ids = trawler.seen_jobs
    /\ trawler.events = <<"starting", "crawling", "matching", "finishing",
                          "saved", "complete">>

\* the job lists of a sequence of calls, one after the other
RECURSIVE Flatten(_)
Flatten(lists) ==
    IF lists = << >> THEN << >> ELSE Head(lists) \o Flatten(Tail(lists))

(***************************************************************************)
(* C28: with file alerts enabled, after any sequence of send_alerts calls  *)
(* the alerts file holds the jobs of all calls with a non-empty job list,  *)
(* concatenated in call order, after the entries that were there           *)
(* initially; no earlier entry is dropped or reordered, and send_alerts    *)
(* with an empty job list writes nothing.                                  *)
(***************************************************************************)
C28_AlertFileAppendOnly ==
    (alert_system # NoAlertSystem /\ alert_system.file_enabled
         /\ alert_system.initial.kind # "other") =>
        LET sent == Flatten(alert_system.calls)
        IN  /\ alert_system.file =
                   IF alert_system.initial.kind = "absent" /\ sent = << >>
                   THEN AbsentFile
                   ELSE ListFile(alert_system.initial.entries \o sent)
            /\ alert_system.writes =
                   Cardinality({i \in 1..Len(alert_system.calls) :
                                   alert_system.calls[i] # << >>})

\* a file with an entry, then a call with one job, a call with none and a
\* call with two
C28_Witness ==
    /\ alert_system # NoAlertSystem
    /\ alert_system.file_enabled
    /\ Len(alert_system.initial.entries) = 1
    /\ Len(alert_system.calls) = 3
    /\ Len(alert_system.calls[1]) = 1
    /\ alert_system.calls[2] = << >>
    /\ Len(alert_system.calls[3]) = 2
    /\ alert_system.calls[3][1] # alert_system.calls[3][2]
    /\ alert_system.calls[3][1] # alert_system.calls[1][1]
    /\ Len(alert_system.file.entries) = 4
    /\ alert_system.writes = 2

\* the call of start_trawler by request r has just been answered with
\* (False, 'Trawler is already running', None)
Rejected(r) ==
    /\ web.requests[r].pc = "idle"
    /\ web'.requests[r].pc = "return"
    /\ web'.requests[r].response = Started(FALSE, "Trawler is already running")

\* request r has just passed the checks of start_trawler
Accepted(r) ==
    /\ web.requests[r].pc = "idle"
    /\ web'.requests[r].pc = "clear"

\* C21: at most one trawler thread runs at a time: there are never two
\* threads that have been started and have not finished, and a call of
\* start_trawler that is made while a thread started earlier has not finished
\* is never accepted.
C21_OneTrawlerThread ==
    [][ /\ Cardinality(Alive') <= 1
        /\ \A r \in Requests : Alive # {} => ~Accepted(r) ]_vars

\* trawler thread i has run its finally block
Finished(i) == i <= Len(web.threads) /\ web.threads[i].pc = "done"

\* trawler thread i has set the flag and has not reset it yet
HoldsFlag(i) ==
    i <= Len(web.threads) /\ web.threads[i].pc \in {"construct", "process", "finally"}

\* C22: a trawler thread that terminates, by the return of process_jobs or by
\* an exception of JobTrawler() or process_jobs, resets trawler_running to
\* False as its last step; when every started thread has finished the flag
\* is False, the flag is True only while a thread that has set it has not
\* reset it, and a call of start_trawler is rejected as 'already running'
\* only while such a thread exists.
C22_FlagReset ==
    /\ \A i \in 1..MaxStarts :
           (i <= Len(web.threads) /\ web.threads[i].pc = "finally")
               ~> (Finished(i) /\ ~web.trawler_running)
    /\ [](web.trawler_running => \E i \in 1..MaxStarts : HoldsFlag(i))
    /\ [][ /\ \A i \in 1..MaxStarts :
                  (~Finished(i) /\ Finished(i)') => ~web'.trawler_running
           /\ \A r \in Requests :
                  Rejected(r) => \E i \in 1..MaxStarts : HoldsFlag(i) ]_vars

\* a thread has ended with an exception, the flag is False again and a later
\* call of start_trawler has started the next thread
C22_Witness ==
    /\ Len(web.threads) = 2
    /\ web.threads[1].pc = "done"
    /\ web.threads[1].raised
    /\ web.threads[2].pc = "new"
    /\ ~web.trawler_running

\* request r has just read the progress file in /api/progress
ReadFile(r) ==
    /\ web.requests[r].pc = "read"
    /\ web'.requests[r].pc = "return"
    /\ web'.requests[r].response.stage = web.progress

\* C30: /api/progress answers running = true whenever it has read a progress
\* file whose stage is not 'complete', whatever the flag says and whether or
\* not a trawler thread is alive; and while no trawler thread is alive a
\* progress file with such a stage keeps such a stage until start_trawler
\* removes the file, and every request that reads it meanwhile, while no
\* call of start_trawler is rewriting it, is answered running = true.
C30_RunningWithoutThread ==
    [][ /\ \A r \in Pollers :
               (ReadFile(r) /\ web.progress # "complete")
                   => web'.requests[r].response.running
        /\ (Alive = {} /\ web.progress \notin {"absent", "complete"})
               => /\ web'.progress \in {"absent", "complete"}
                         => /\ web'.progress = "absent"
                            /\ \E r \in Requests :
                                   /\ web.requests[r].pc = "clear"
                                   /\ web'.requests[r].pc = "create"
                  /\ \A r \in Pollers :
                         (/\ web.requests[r].pc = "read"
                          /\ web'.requests[r].pc = "return"
                          /\ ~Writing)
                             => web'.requests[r].response.running ]_vars

\* the only thread has ended with an exception in the middle of its run, and
\* /api/progress, with the flag False and no thread alive, answers running
C30_Witness ==
    /\ Len(web.threads) = 1
    /\ web.threads[1].pc = "done"
    /\ web.threads[1].raised
    /\ \E r \in Pollers :
           /\ web.requests[r].pc = "return"
           /\ web.requests[r].response.kind = "progress"
           /\ web.requests[r].response.stage = "crawling"
           /\ web.requests[r].response.running
           /\ ~web.requests[r].response.alive
=============================================================================
